---- MODULE Spec2Model ----
(***************************************************************************)
(* Location-history to KML converter: the export path (period filter,      *)
(* track segmenter), the preview path (map-matching resolver with its      *)
(* Mapbox -> OSRM -> raw fallback chain), the normalization of a loaded    *)
(* file, the period list, the processing run and the file selection.       *)
(*                                                                         *)
(* Units.  Coordinates are kept in microdegree integers (degrees * 1e7),  *)
(* the unit of latitudeE7/longitudeE7, so the code's 1e-7 degree tolerance *)
(* is 1 and its 90/180 degree limits are 900000000/1800000000.  Timestamps *)
(* are milliseconds.  A JavaScript value that may be null is a sequence of *)
(* length 0 (null) or 1 (the value).                                       *)
(***************************************************************************)
EXTENDS Integers, Sequences, FiniteSets, TLC

VARIABLES
    locations,      \* window.convertedLocations || locationData.locations
    kmlOut,         \* what the last generateKML call computed
    mapboxConfig,   \* the global mapboxConfig: apiKey, usageCount
    localStorage,   \* the browser's localStorage record 'mapboxConfig'
    res,            \* the loadPeriodData calls, one record per call slot
    mapLayers,      \* the polylines drawn on the map, in the order they were added
    currentMapData, \* the global currentMapData
    kmlDoc,         \* the content handed to downloadKML by the last export
    mapboxUsageReset, \* the browser's localStorage item 'mapboxUsageReset'
    now,            \* the calendar month of the clock, counted in months
    windowConfig,   \* window.CONFIG.MAPBOX_ACCESS_TOKEN of config.js (null when absent)
    locationData,   \* the global locationData: the parsed file (null before a load)
    globalDateRange, \* window.globalDateRange (undefined before a successful load)
    periods,        \* the global periods
    periodSummary,  \* the record counts shown, one per period (periodSummary_<id>)
    alerts,         \* the messages showError raised during the last operation
    processingRun,  \* the run of processPeriods: its total, pending timers, downloads
    isProcessingFile, \* the global isProcessingFile
    fileReaders,    \* the files the pending FileReaders of processFile are reading
    resetTimers,    \* the pending timeouts that reset isProcessingFile
    ignoredSelections \* the selections and drops logged as ignored

vars == <<locations, kmlOut, mapboxConfig, localStorage, res, mapLayers, currentMapData,
          kmlDoc, mapboxUsageReset, now, windowConfig, locationData, globalDateRange,
          periods, periodSummary, alerts, processingRun, isProcessingFile, fileReaders,
          resetTimers, ignoredSelections>>

\* what no export and no resolution touches
quotaEnv == <<mapboxUsageReset, now, windowConfig>>

\* what only file loads and period edits touch
fileEnv == <<locationData, globalDateRange, periods, periodSummary, alerts>>

\* what only a processing run touches, and what only a file selection touches
runEnv == <<processingRun>>
loadEnv == <<isProcessingFile, fileReaders, resetTimers, ignoredSelections>>

-----------------------------------------------------------------------------
(* JavaScript values *)

None == <<>>
Some(v) == <<v>>
\* ToNumber: null converts to 0 in arithmetic, isFinite and Math.abs
Num(o) == IF o = None THEN 0 ELSE o[1]
Abs(n) == IF n < 0 THEN -n ELSE n

UpperChars == "ABCDEFGHIJKLMNOPQRSTUVWXYZ"
LowerChars == "abcdefghijklmnopqrstuvwxyz"

\* the lower-case letter of each upper-case letter
LowerMap ==
    [c \in {SubSeq(UpperChars, i, i) : i \in 1..Len(UpperChars)} |->
        LET i == CHOOSE k \in 1..Len(UpperChars) : SubSeq(UpperChars, k, k) = c
        IN SubSeq(LowerChars, i, i)]

LowerChar(c) == IF c \in DOMAIN LowerMap THEN LowerMap[c] ELSE c

RECURSIVE toLowerCase(_)
toLowerCase(s) ==
    IF Len(s) = 0 THEN ""
    ELSE LowerChar(SubSeq(s, 1, 1)) \o toLowerCase(SubSeq(s, 2, Len(s)))

\* String.prototype.includes
includes(hay, needle) ==
    \E i \in 1..(Len(hay) - Len(needle) + 1) :
        SubSeq(hay, i, i + Len(needle) - 1) = needle

-----------------------------------------------------------------------------
(* Program constants *)

E7 == 10000000
MaxLatE7 == 90 * E7
MaxLonE7 == 180 * E7
ToleranceE7 == 1

defaultGap == 30 * 60 * 1000
fastGap == 3 * 60 * 60 * 1000
walkGap == 10 * 60 * 1000
fastModes == {"in passenger vehicle", "in train", "in subway", "in tram", "in bus", "in ferry"}
walkModes == {"walking", "on foot", "running"}

-----------------------------------------------------------------------------
(* Canonical points *)

\* the file globals of a page on which the point list was put in use directly
NoFileLoaded ==
    /\ locationData = <<>>
    /\ globalDateRange = <<>>
    /\ periods = <<>>
    /\ periodSummary = <<>>
    /\ alerts = <<>>
    /\ processingRun = [total |-> 0, timers |-> <<>>, downloads |-> <<>>]
    /\ isProcessingFile = FALSE
    /\ fileReaders = <<>>
    /\ resetTimers = 0
    /\ ignoredSelections = 0

Pt(lat, lon, ts, src, act) ==
    [latitudeE7 |-> lat, longitudeE7 |-> lon, timestampMs |-> ts,
     source |-> src, activityType |-> act]

\* parseInt(loc.timestampMs || loc.timestamp)
TsOf(loc) == loc.timestampMs

\* loc.latitudeE7 ? loc.latitudeE7 / 10000000 : null   (0 and undefined are falsy)
latRawOf(loc) == IF loc.latitudeE7 # 0 THEN Some(loc.latitudeE7) ELSE None
lonRawOf(loc) == IF loc.longitudeE7 # 0 THEN Some(loc.longitudeE7) ELSE None

\* new Date(value).getTime() of a value that is no date: NaN, which compares
\* false with everything
InvalidDate == -1

\* a < b and a > b on the times of two Date objects
DateLt(a, b) == a # InvalidDate /\ b # InvalidDate /\ a < b
DateGt(a, b) == DateLt(b, a)

\* The period filter, used alike by generateKML and loadPeriodData
FilterPeriod(locs, period) ==
    IF period.startDate = InvalidDate \/ period.endDate = InvalidDate THEN <<>>
    ELSE SelectSeq(locs, LAMBDA loc : TsOf(loc) >= period.startDate /\ TsOf(loc) <= period.endDate)

\* Array.prototype.sort with the comparator a.ts - b.ts: a stable sort
RECURSIVE InsertByTime(_, _)
InsertByTime(sorted, x) ==
    IF sorted = <<>> THEN <<x>>
    ELSE LET n == Len(sorted)
         IN IF TsOf(sorted[n]) <= TsOf(x) THEN Append(sorted, x)
            ELSE Append(InsertByTime(SubSeq(sorted, 1, n - 1), x), sorted[n])

\* the list is walked in the order it was given
SortByTimeSkipped(s) == s

RECURSIVE SortByTime(_)
SortByTime(s) ==
    IF s = <<>> THEN <<>>
    ELSE InsertByTime(SortByTime(SubSeq(s, 1, Len(s) - 1)), s[Len(s)])

-----------------------------------------------------------------------------
(* Track segmenter: generateKML *)

\* only the earlier endpoint is classified
getPairGapThresholdMsPrevOnly(prevLoc, nextLoc) ==
    LET prevMode == toLowerCase(prevLoc.activityType)
    IN IF \E m \in fastModes : includes(prevMode, m) THEN fastGap
       ELSE IF \E m \in walkModes : includes(prevMode, m) THEN walkGap
       ELSE defaultGap

getPairGapThresholdMs(prevLoc, nextLoc) ==
    LET prevMode == toLowerCase(prevLoc.activityType)
        nextMode == toLowerCase(nextLoc.activityType)
    IN IF (\E m \in fastModes : includes(prevMode, m))
          \/ (\E m \in fastModes : includes(nextMode, m))
       THEN fastGap
       ELSE IF (\E m \in walkModes : includes(prevMode, m))
               \/ (\E m \in walkModes : includes(nextMode, m))
       THEN walkGap
       ELSE defaultGap

\* isFinite(lat) && isFinite(lon) && Math.abs(lat) <= 90 && Math.abs(lon) <= 180
isValidCoord(lat, lon) == Abs(Num(lat)) <= MaxLatE7 /\ Abs(Num(lon)) <= MaxLonE7

\* the test of line 997: same coordinate as the previous retained point
isConsecutiveDuplicate(lastLat, lastLon, latRaw, lonRaw) ==
    /\ lastLat # None
    /\ lastLon # None
    /\ Abs(Num(latRaw) - Num(lastLat)) < ToleranceE7
    /\ Abs(Num(lonRaw) - Num(lastLon)) < ToleranceE7

\* a gap equal to the threshold splits too
gapExceededAtThreshold(timeDiff, gapMs) == timeDiff >= gapMs

\* timeDiff > gapMs
gapExceeded(timeDiff, gapMs) == timeDiff > gapMs

\* the buffer restarts empty, losing the point that closed the segment
startSegmentEmpty(loc) == <<>>

\* currentSegment = [loc]
startSegment(loc) == <<loc>>

\* every closed non-empty buffer is committed
commitSegmentAnyLength(trackSegments, currentSegment) ==
    IF Len(currentSegment) >= 1 THEN Append(trackSegments, currentSegment)
    ELSE trackSegments

\* a closed buffer is committed only with at least 2 points
commitSegment(trackSegments, currentSegment) ==
    IF Len(currentSegment) >= 2 THEN Append(trackSegments, currentSegment)
    ELSE trackSegments

WalkInit ==
    [trackSegments |-> <<>>, currentSegment |-> <<>>,
     lastLat |-> None, lastLon |-> None, retained |-> <<>>, gapLog |-> <<>>]

\* one iteration of the loop of lines 988-1022
WalkStep(st, loc) ==
    LET latRaw == latRawOf(loc)
        lonRaw == lonRawOf(loc)
    IN IF ~isValidCoord(latRaw, lonRaw) THEN st
       ELSE IF isConsecutiveDuplicate(st.lastLat, st.lastLon, latRaw, lonRaw) THEN st
       ELSE LET kept == [st EXCEPT !.lastLat = latRaw, !.lastLon = lonRaw,
                                   !.retained = Append(@, loc)]
            IN IF Len(st.currentSegment) = 0
               THEN [kept EXCEPT !.currentSegment = <<loc>>]
               ELSE LET last == st.currentSegment[Len(st.currentSegment)]
                        timeDiff == TsOf(loc) - TsOf(last)
                        gapMs == getPairGapThresholdMs(last, loc)
                        logged == [kept EXCEPT !.gapLog = Append(@,
                                      [prev |-> last, next |-> loc,
                                       timeDiff |-> timeDiff, gapMs |-> gapMs])]
                    IN IF gapExceeded(timeDiff, gapMs)
                       THEN [logged EXCEPT
                                !.trackSegments = commitSegment(@, st.currentSegment),
                                !.currentSegment = startSegment(loc)]
                       ELSE [logged EXCEPT !.currentSegment = Append(@, loc)]

RECURSIVE WalkFrom(_, _, _)
WalkFrom(locs, i, st) ==
    IF i > Len(locs) THEN st ELSE WalkFrom(locs, i + 1, WalkStep(st, locs[i]))

NoKml == [empty |-> TRUE]

\* generateKML(period) up to the segment list it serializes
generateKML(locs, period) ==
    LET periodLocations == FilterPeriod(locs, period)
    IN IF Len(periodLocations) = 0 THEN NoKml
       ELSE LET sorted == SortByTime(periodLocations)
                st == WalkFrom(sorted, 1, WalkInit)
            IN [empty |-> FALSE,
                period |-> period,
                periodLocations |-> sorted,
                retained |-> st.retained,
                gapLog |-> st.gapLog,
                trackSegments |-> commitSegment(st.trackSegments, st.currentSegment)]

-----------------------------------------------------------------------------
(* Document serializer: the template of generateKML *)

\* n written with 6 digits
Pad6(n) ==
    LET d == ToString(n)
    IN SubSeq("000000", 1, 6 - Len(d)) \o d

\* (x / 10000000).toFixed(6) for x in units of 1e-7: the nearest millionth.  A
\* last digit of 5 is a tie that the binary value of the quotient decides; it is
\* written here as rounding away from zero.
toFixed6(e7) ==
    LET micro == (Abs(e7) + 5) \div 10
    IN (IF e7 < 0 THEN "-" ELSE "") \o ToString(micro \div 1000000) \o "."
          \o Pad6(micro % 1000000)

\* the coordinate triples of a segment (lines 1070-1077): only the points whose
\* two coordinates are truthy are written
lineCoordinates(segment) ==
    LET written == SelectSeq(segment, LAMBDA loc : loc.longitudeE7 # 0 /\ loc.latitudeE7 # 0)
    IN [k \in 1..Len(written) |->
          toFixed6(written[k].longitudeE7) \o "," \o toFixed6(written[k].latitudeE7) \o ",0"]

\* one <Placemark> with a <LineString> (lines 1064-1091)
lineFeature(segment, segmentIndex) ==
    [timeRange |-> <<TsOf(segment[1]), TsOf(segment[Len(segment)])>>,
     description |-> [segment |-> segmentIndex, points |-> Len(segment)],
     coordinates |-> lineCoordinates(segment)]

\* one <Placemark> with a <Point>, named by the place of the point in the
\* period's list (lines 1102-1119)
pointFeature(loc, index, showLabels) ==
    [index |-> index,
     label |-> IF showLabels THEN Some(TsOf(loc)) ELSE None,
     coordinates |-> <<loc.longitudeE7, loc.latitudeE7, 0>>]

\* periodLocations.map(...).join(''): the points without two truthy coordinates
\* give the empty string
pointFeatures(periodLocations, showLabels) ==
    LET places == SelectSeq([k \in 1..Len(periodLocations) |-> k],
                            LAMBDA k : periodLocations[k].longitudeE7 # 0
                                         /\ periodLocations[k].latitudeE7 # 0)
    IN [j \in 1..Len(places) |-> pointFeature(periodLocations[places[j]], places[j], showLabels)]

\* return '' of lines 953 and 964
EmptyString ==
    [document |-> FALSE, period |-> None, color |-> None, labelScale |-> None,
     tracks |-> <<>>, points |-> None]

\* the string generateKML returns, as the tree it spells (lines 1036-1126)
kmlDocument(out, style) ==
    IF out.empty THEN EmptyString
    ELSE [document |-> TRUE,
          period |-> Some(out.period.id),
          color |-> Some(style.lineColor),
          labelScale |-> Some(IF style.showLabels THEN "1.0" ELSE "0.0"),
          tracks |-> [i \in 1..Len(out.trackSegments) |-> lineFeature(out.trackSegments[i], i)],
          points |-> IF style.showLabels \/ style.showTickmarks \/ style.showTrackpoints
                     THEN Some(pointFeatures(out.periodLocations, style.showLabels))
                     ELSE None]

\* the stored array after an export that sorts it in place
locationsSortedInPlace(locs, period) == SortByTime(locs)

\* the stored array after an export: locations.filter builds a new array, so the
\* sort of line 982 leaves the stored one as it was
locationsAfterExport(locs, period) == locs

-----------------------------------------------------------------------------
(* Normalization: extractPathLatLngsFromActivity, convertActivityBasedData,  *)
(* analyzeLocationData                                                       *)

\* Degrees read from the file as a floating-point number x are written by
\* x * 1e7 = e7 + tenths / 10, with e7 the integer below it and tenths in 0..9;
\* the microdegree integers of the E7 fields are plain integers.
Deg(e7, tenths) == [e7 |-> e7, tenths |-> tenths]

\* an E7 field divided by 10000000, and null read as a number
DegOfE7(n) == Deg(n, 0)

\* Math.round(x * 10000000): the nearest integer, a tie towards +infinity
roundE7(deg) == deg.e7 + (IF deg.tenths >= 5 THEN 1 ELSE 0)

\* Math.abs(x) > limit, for a limit in whole degrees
absExceeds(deg, limit) ==
    \/ deg.e7 > limit * E7
    \/ deg.e7 = limit * E7 /\ deg.tenths > 0
    \/ deg.e7 < -(limit * E7)

\* a geo: string, 'geo:lat,lon', with the two numbers it spells
Geo(lat, lon) == Some(<<lat, lon>>)

\* a point-list entry of the file with all its coordinate fields; an E7 field
\* that is absent reads as undefined, written 0 like every falsy coordinate, and
\* absent floats are None
Entry(latitudeE7, longitudeE7, lat, lng, latE7, lngE7, ts) ==
    [latitudeE7 |-> latitudeE7, longitudeE7 |-> longitudeE7, lat |-> lat, lng |-> lng,
     latE7 |-> latE7, lngE7 |-> lngE7, timestampMs |-> ts, source |-> "", activityType |-> ""]

\* Date.now() while the file is converted
dateNow == 43200000

\* parseMillis (lines 564-571): a string of digits is the milliseconds it
\* spells; another string is handed to new Date, whose reading is t.ms; a missing
\* or unreadable time is the clock
parseMillis(t) ==
    IF t.kind \in {"digits", "iso"} THEN t.ms ELSE dateNow

\* the geo: entries of a timelinePath read without their offsets
timelinePointsUntimed(activity) ==
    LET geo == SelectSeq(activity.timelinePath, LAMBDA p : p.point # None)
    IN [k \in 1..Len(geo) |->
          [lat |-> geo[k].point[1][1], lon |-> geo[k].point[1][2],
           timed |-> FALSE, minutesOffset |-> None]]

\* the entries of a timelinePath that spell a geo: point (lines 514-526); every
\* one carries _minutesOffset, NaN (None) when the file gives none
timelinePoints(activity) ==
    LET geo == SelectSeq(activity.timelinePath, LAMBDA p : p.point # None)
    IN [k \in 1..Len(geo) |->
          [lat |-> geo[k].point[1][1], lon |-> geo[k].point[1][2],
           timed |-> TRUE, minutesOffset |-> geo[k].offset]]

\* an entry of a waypoint array: the encoding it is written in, its integer
\* fields (latE7/lngE7 or latitudeE7/longitudeE7) and its float fields (lat/lng)
Waypoint(enc, latE7, lngE7, lat, lng) ==
    [enc |-> enc, latE7 |-> latE7, lngE7 |-> lngE7, lat |-> lat, lng |-> lng]

\* one entry of a waypoint array read in the encoding it has (lines 532-540);
\* an entry in none of them leaves lat = lon = null, which isFinite accepts
waypointLatLng(p) ==
    CASE p.enc \in {"latE7", "latitudeE7"} ->
             [lat |-> DegOfE7(p.latE7), lon |-> DegOfE7(p.lngE7),
              timed |-> FALSE, minutesOffset |-> None]
      [] p.enc = "latlng" -> [lat |-> p.lat, lon |-> p.lng,
                              timed |-> FALSE, minutesOffset |-> None]
      [] OTHER -> [lat |-> DegOfE7(0), lon |-> DegOfE7(0), timed |-> FALSE,
                   minutesOffset |-> None]

\* extractPathLatLngsFromActivity (lines 490-545); activity.waypoints stands for
\* the first waypoint array of the activity that is not empty
extractPathLatLngsFromActivity(activity) ==
    IF timelinePoints(activity) # <<>> THEN timelinePoints(activity)
    ELSE [k \in 1..Len(activity.waypoints) |-> waypointLatLng(activity.waypoints[k])]

\* the start and end geo: strings of an activity without a path (lines 587-598)
startEndLatLngs(activity) ==
    LET one(g) == IF g = None THEN <<>>
                  ELSE << [lat |-> g[1][1], lon |-> g[1][2],
                           timed |-> FALSE, minutesOffset |-> None] >>
    IN one(activity.start) \o one(activity.end)

\* pushPoint (lines 551-562): nothing for a point out of range
pushPoint(lat, lon, ts, source, activityType) ==
    IF absExceeds(lat, 90) \/ absExceeds(lon, 180) THEN <<>>
    ELSE << Pt(roundE7(lat), roundE7(lon), ts, source, activityType) >>

\* Math.round(startTs + (totalMs * i) / (n - 1))
interpolated(startTs, totalMs, i, n) ==
    (2 * (startTs * (n - 1) + totalMs * i) + (n - 1)) \div (2 * (n - 1))

\* the pushes of a loop, one after the other
RECURSIVE flat(_)
flat(pushes) == IF pushes = <<>> THEN <<>> ELSE Head(pushes) \o flat(Tail(pushes))

\* the points one record of the file pushes (lines 573-625)
recordPoints(record) ==
    IF record.kind = "activity"
    THEN LET activity == record.activity
             startTs == parseMillis(record.startTime)
             endTs == parseMillis(record.endTime)
             totalMs == IF endTs - startTs > 1 THEN endTs - startTs ELSE 1
             extracted == extractPathLatLngsFromActivity(activity)
             hasMinuteOffsets == extracted # <<>> /\ extracted[1].timed
             pathLatLngs == IF extracted = <<>> THEN startEndLatLngs(activity) ELSE extracted
             n == Len(pathLatLngs)
             t(i) == IF hasMinuteOffsets
                     THEN startTs + Num(pathLatLngs[i].minutesOffset) * 60 * 1000
                     ELSE IF n = 1 THEN startTs
                     ELSE interpolated(startTs, totalMs, i - 1, n)
             stamp(i) == pushPoint(pathLatLngs[i].lat, pathLatLngs[i].lon, t(i), "activity_path",
                                   IF activity.type = "" THEN "unknown" ELSE activity.type)
         IN flat([i \in 1..n |-> stamp(i)])
    ELSE IF record.kind = "visit"
    THEN IF record.placeLocation = None THEN <<>>
         ELSE pushPoint(record.placeLocation[1][1], record.placeLocation[1][2],
                        parseMillis(record.startTime), "visit", "")
    ELSE <<>>

\* standardLocations before it is sorted
standardLocations(activityData) ==
    flat([k \in 1..Len(activityData) |-> recordPoints(activityData[k])])

\* the suppression pass with every earlier output point as the reference
RECURSIVE dropAllDuplicates(_)
dropAllDuplicates(ps) ==
    IF ps = <<>> THEN <<>>
    ELSE LET deduped == dropAllDuplicates(SubSeq(ps, 1, Len(ps) - 1))
             p == ps[Len(ps)]
         IN IF \E k \in 1..Len(deduped) :
                   deduped[k].latitudeE7 = p.latitudeE7 /\ deduped[k].longitudeE7 = p.longitudeE7
            THEN deduped ELSE Append(deduped, p)

\* the suppression pass with a reference that is forgotten after a drop
RECURSIVE dropForgetful(_, _, _)
dropForgetful(ps, i, st) ==
    IF i > Len(ps) THEN st.deduped
    ELSE LET p == ps[i]
         IN IF st.last # None /\ st.last[1].latitudeE7 = p.latitudeE7
                              /\ st.last[1].longitudeE7 = p.longitudeE7
            THEN dropForgetful(ps, i + 1, [st EXCEPT !.last = None])
            ELSE dropForgetful(ps, i + 1, [deduped |-> Append(st.deduped, p), last |-> Some(p)])

dropForgetfulDuplicates(ps) == dropForgetful(ps, 1, [deduped |-> <<>>, last |-> None])

\* lines 630-636: a point is pushed unless it has the microdegree pair of the
\* last point pushed
RECURSIVE dedupeFrom(_, _, _)
dedupeFrom(ps, i, deduped) ==
    IF i > Len(ps) THEN deduped
    ELSE LET p == ps[i]
             last == deduped[Len(deduped)]
         IN dedupeFrom(ps, i + 1,
                       IF deduped = <<>> \/ last.latitudeE7 # p.latitudeE7
                                         \/ last.longitudeE7 # p.longitudeE7
                       THEN Append(deduped, p) ELSE deduped)

dropConsecutiveDuplicates(ps) == dedupeFrom(ps, 1, <<>>)

\* convertActivityBasedData (lines 547-640)
convertActivityBasedData(activityData) ==
    dropConsecutiveDuplicates(SortByTime(standardLocations(activityData)))

\* the timestamp of the first entry taken for the smallest
minTsOfFirst(locs) == TsOf(locs[1])

\* the smallest and the largest timestamp of a non-empty list (lines 466-469)
minTs(locs) == CHOOSE t \in { TsOf(locs[k]) : k \in 1..Len(locs) } :
                  \A k \in 1..Len(locs) : t <= TsOf(locs[k])
maxTs(locs) == CHOOSE t \in { TsOf(locs[k]) : k \in 1..Len(locs) } :
                  \A k \in 1..Len(locs) : t >= TsOf(locs[k])

InvalidFormat == "Invalid location data format. Expected \"locations\" array or activity-based array."
NoLocationData == "No location data found in the file."
InvalidJson == "Invalid JSON file. Please check the file format."

\* analyzeLocationData with a point list sorted and deduplicated like the
\* points of a list of records
analyzeLocationDataConvertingAll(doc) ==
    IF doc.shape \notin {"standard", "records"}
    THEN [stored |-> None, alerts |-> <<InvalidFormat>>]
    ELSE LET locs == IF doc.shape = "standard"
                     THEN dropConsecutiveDuplicates(SortByTime(doc.locations))
                     ELSE convertActivityBasedData(doc.records)
         IN IF locs = <<>> THEN [stored |-> None, alerts |-> <<NoLocationData>>]
            ELSE [stored |-> Some([convertedLocations |-> locs,
                                   globalDateRange |-> [min |-> minTs(locs), max |-> maxTs(locs)]]),
                  alerts |-> <<>>]

\* analyzeLocationData (lines 435-479) on the parsed file `doc`: what it stores
\* (nothing when it returns early) and the messages it shows
analyzeLocationData(doc) ==
    IF doc.shape \notin {"standard", "records"}
    THEN [stored |-> None, alerts |-> <<InvalidFormat>>]
    ELSE LET locs == IF doc.shape = "standard" THEN doc.locations
                     ELSE convertActivityBasedData(doc.records)
         IN IF locs = <<>> THEN [stored |-> None, alerts |-> <<NoLocationData>>]
            ELSE [stored |-> Some([convertedLocations |-> locs,
                                   globalDateRange |-> [min |-> minTs(locs), max |-> maxTs(locs)]]),
                  alerts |-> <<>>]

-----------------------------------------------------------------------------
(* Provider quota: mapboxConfig *)

monthlyLimit == 100000
fallbackThresholdTenths == 9     \* fallbackThreshold: 0.9

IdleConfig == [apiKey |-> None, usageCount |-> 0]

\* the month the clock shows when a session starts
FirstMonth == 0

\* the comparison admits the threshold itself
shouldUseMapboxAtThreshold(cfg) ==
    /\ cfg.apiKey # None
    /\ cfg.usageCount * 10 <= fallbackThresholdTenths * monthlyLimit

\* usageCount / monthlyLimit < fallbackThreshold, with a key configured
shouldUseMapbox(cfg) ==
    /\ cfg.apiKey # None
    /\ cfg.usageCount * 10 < fallbackThresholdTenths * monthlyLimit

\* the record is persisted without the count just reached
saveMapboxConfigKeyOnly(cfg) == Some([apiKey |-> cfg.apiKey, usageCount |-> 0])

\* saveMapboxConfig: the record written to localStorage
saveMapboxConfig(cfg) == Some([apiKey |-> cfg.apiKey, usageCount |-> cfg.usageCount])

-----------------------------------------------------------------------------
(* Map-matching resolver: loadPeriodData, snapPathSmart, mapboxMapMatching,  *)
(* snapPathOSRM.  Coordinates are pairs; Providers answer in [lon, lat].     *)

chunkSize == 90

Min(a, b) == IF a < b THEN a ELSE b

\* loc.longitudeE7 && loc.latitudeE7
usable(loc) == loc.longitudeE7 # 0 /\ loc.latitudeE7 # 0

FilterUsable(locs) == SelectSeq(locs, usable)

\* .map(l => [l.latitudeE7 / 1e7, l.longitudeE7 / 1e7])
toLatLon(locs) == [k \in 1..Len(locs) |-> <<locs[k].latitudeE7, locs[k].longitudeE7>>]

\* .map(loc => [loc.longitudeE7 / 1e7, loc.latitudeE7 / 1e7, parseInt(...) || 0])
rawOf(periodLocations) ==
    LET u == FilterUsable(periodLocations)
    IN [k \in 1..Len(u) |-> <<u[k].longitudeE7, u[k].latitudeE7, TsOf(u[k])>>]

\* the native path is taken only when every point is an activity_path point
pathShareAllTagged(periodLocations) ==
    \A k \in 1..Len(periodLocations) : periodLocations[k].source = "activity_path"

\* the share of activity_path points is above one half
pathShareHigh(periodLocations) ==
    2 * Cardinality({k \in 1..Len(periodLocations) :
                        periodLocations[k].source = "activity_path"})
        > Len(periodLocations)

\* the native path: usable points, time-sorted, as [lat, lon]
nativePath(periodLocations) == toLatLon(SortByTime(FilterUsable(periodLocations)))

\* the raw substitute of loadPeriodData when snapPathSmart returns null
rawFallback(periodLocations) == toLatLon(FilterUsable(periodLocations))

\* geometry.coordinates.map(coord => [coord[0], coord[1]])
mapboxCoordinates(geometry) ==
    [k \in 1..Len(geometry) |-> <<geometry[k][1], geometry[k][2]>>]

\* any non-null primary result is returned
mapboxResultUsableAnyLength(mapboxResult) == TRUE

\* mapboxResult && mapboxResult.length >= 2
mapboxResultUsable(mapboxResult) == Len(mapboxResult) >= 2

\* the secondary's coordinates are passed on in the provider's axis order
swapLonLatOmitted(coords) == [k \in 1..Len(coords) |-> <<coords[k][1], coords[k][2]>>]

\* .map(([lon, lat]) => [lat, lon])
swapLonLat(coords) == [k \in 1..Len(coords) |-> <<coords[k][2], coords[k][1]>>]

\* raw.slice(i, i + chunkSize), i counted from 0
chunkAt(raw, i) == SubSeq(raw, i + 1, Min(i + chunkSize, Len(raw)))

\* the test of line 1446: p is pushed when nothing was pushed yet or p differs
\* from the last pushed one by more than the tolerance in some axis
dedupeKeeps(last, q) ==
    \/ last = None
    \/ Abs(last[1][1] - q[1]) > ToleranceE7
    \/ Abs(last[1][2] - q[2]) > ToleranceE7

\* the loop of lines 1443-1447 over snapped[lo..hi], `last` being the last point
\* pushed before lo (the loop is run by halves to keep the evaluation shallow)
RECURSIVE dedupeRange(_, _, _, _)
dedupeRange(snapped, lo, hi, last) ==
    IF lo > hi THEN <<>>
    ELSE IF lo = hi THEN (IF dedupeKeeps(last, snapped[lo]) THEN <<snapped[lo]>> ELSE <<>>)
    ELSE LET mid == (lo + hi) \div 2
             left == dedupeRange(snapped, lo, mid, last)
             last2 == IF left = <<>> THEN last ELSE Some(left[Len(left)])
         IN left \o dedupeRange(snapped, mid + 1, hi, last2)

dedupe(snapped) == dedupeRange(snapped, 1, Len(snapped), None)

\* return result.length >= 2 ? result : null
osrmResult(snapped) ==
    LET result == dedupe(snapped)
    IN IF Len(result) >= 2 THEN Some(result) ELSE None

\* lines 1435-1440: the merged matchings, or the raw chunk when they are too short
matchedOrRaw(merged, chunk) ==
    IF Len(merged) > 1 THEN swapLonLat(merged) ELSE swapLonLat(chunk)

\* the loop index does not advance: the first chunk is requested again
osrmLoopSameChunk(raw, i) ==
    IF Len(chunkAt(raw, 0)) < 2 THEN [more |-> FALSE, i |-> i] ELSE [more |-> TRUE, i |-> 0]

\* the head of the loop of line 1409 from index i: the next chunk to request,
\* skipping chunks of fewer than 2 points, or the end of the loop
RECURSIVE osrmLoop(_, _)
osrmLoop(raw, i) ==
    IF i >= Len(raw) THEN [more |-> FALSE, i |-> i]
    ELSE IF Len(chunkAt(raw, i)) < 2 THEN osrmLoop(raw, i + chunkSize)
    ELSE [more |-> TRUE, i |-> i]

\* no try block encloses the place: the exception leaves the resolution rejected
handlerOfUncaught(place) == "none"

\* where an exception thrown at a place is caught
handlerOf(place) ==
    CASE place = "mapboxMapMatching" -> "snapPathSmart.inner"   \* rethrown at 109, caught at 1379
      [] place = "snapPathOSRM" -> "snapPathOSRM.catch"         \* caught at 1449
      [] OTHER -> "snapPathSmart.outer"                         \* caught at 1388

Slots == {1, 2}

IdleSlot ==
    [pc |-> "idle", calls |-> 0, period |-> None, periodLocations |-> <<>>,
     usageAtStart |-> 0, i |-> 0, snapped |-> <<>>, requests |-> <<>>, responses |-> <<>>,
     smartCalled |-> FALSE, osrmCalled |-> FALSE, smartResult |-> None,
     osrmReturned |-> None, coordinates |-> None]

MaxCalls == 1        \* loadPeriodData calls per slot

\* The operators below are the continuations of one loadPeriodData call p with
\* local state r; `layers` is what the map shows when the continuation starts.

\* L.polyline(coordinates, ...).addTo(map): the layers cleared at the start of
\* the call (lines 1238-1242) are gone, the ones added since then stay
addPolyline(layers, coordinates) == Append(layers, coordinates)

\* the rest of loadPeriodData once its coordinates are known (lines 1279-1290)
Draw(p, r, layers, coordinates) ==
    /\ res' = [res EXCEPT ![p] = [r EXCEPT !.pc = "done", !.coordinates = Some(coordinates)]]
    /\ IF Len(coordinates) = 0
       THEN mapLayers' = layers /\ UNCHANGED currentMapData
       ELSE /\ mapLayers' = addPolyline(layers, coordinates)
            /\ currentMapData' = Some([period |-> r.period, coordinates |-> coordinates])

\* snapPathSmart returned `result` to loadPeriodData (lines 1271-1276)
SmartReturns(p, r, layers, result) ==
    Draw(p, [r EXCEPT !.smartResult = result], layers,
         IF result = None THEN rawFallback(r.periodLocations) ELSE result[1])

\* snapPathOSRM returned `result` to snapPathSmart, which returns it (line 1386)
OsrmReturns(p, r, layers, result) ==
    SmartReturns(p, [r EXCEPT !.osrmReturned = Some(result)], layers, result)

\* an exception was thrown at `place`
Throws(p, r, layers, place) ==
    IF handlerOf(place) = "snapPathOSRM.catch" THEN OsrmReturns(p, r, layers, None)
    ELSE IF handlerOf(place) = "snapPathSmart.outer" THEN SmartReturns(p, r, layers, None)
    ELSE /\ res' = [res EXCEPT ![p] = [r EXCEPT !.pc = "rejected"]]
         /\ mapLayers' = layers
         /\ UNCHANGED currentMapData

\* snapPathOSRM's loop goes on at index i with the list `snapped`
OsrmLoopFrom(p, r, layers, i, snapped) ==
    LET raw == rawOf(r.periodLocations)
        nxt == osrmLoop(raw, i)
    IN IF nxt.more
       THEN /\ res' = [res EXCEPT ![p] = [r EXCEPT
                          !.pc = "match", !.i = nxt.i, !.snapped = snapped,
                          !.requests = Append(@, [to |-> "match", i |-> nxt.i])]]
            /\ mapLayers' = layers
            /\ UNCHANGED currentMapData
       ELSE OsrmReturns(p, [r EXCEPT !.snapped = snapped], layers, osrmResult(snapped))

\* snapPathOSRM(periodLocations) up to its first request (lines 1397-1415)
CallOsrm(p, r, layers) ==
    LET r1 == [r EXCEPT !.osrmCalled = TRUE]
    IN IF Len(r.periodLocations) < 2 \/ Len(rawOf(r.periodLocations)) < 2
       THEN OsrmReturns(p, r1, layers, None)
       ELSE OsrmLoopFrom(p, r1, layers, 0, <<>>)

\* snapPathSmart(periodLocations) up to its first request (lines 1356-1374, 1386)
CallSmart(p, r, layers) ==
    LET r1 == [r EXCEPT !.smartCalled = TRUE]
    IN IF Len(r.periodLocations) < 2 \/ Len(rawOf(r.periodLocations)) < 2
       THEN SmartReturns(p, r1, layers, None)
       ELSE IF shouldUseMapbox(mapboxConfig)
       THEN /\ res' = [res EXCEPT ![p] = [r1 EXCEPT
                          !.pc = "mapbox", !.requests = Append(@, [to |-> "mapbox", i |-> 0])]]
            /\ mapLayers' = layers
            /\ UNCHANGED currentMapData
       ELSE CallOsrm(p, r1, layers)

\* loadPeriodData(period) over the point list `locs`, to its end or to its first
\* pending request, as call number `calls` of slot p; the map exists
loadPeriodDataOver(p, period, locs, calls) ==
    LET periodLocations == FilterPeriod(locs, period)
        r == [IdleSlot EXCEPT !.calls = calls, !.period = Some(period),
                              !.periodLocations = periodLocations,
                              !.usageAtStart = mapboxConfig.usageCount]
    IN IF Len(periodLocations) = 0
       THEN /\ res' = [res EXCEPT ![p] = [r EXCEPT !.pc = "done"]]
            /\ mapLayers' = None
            /\ UNCHANGED currentMapData
       ELSE IF pathShareHigh(periodLocations) /\ Len(nativePath(periodLocations)) >= 2
       THEN Draw(p, r, None, nativePath(periodLocations))
       ELSE CallSmart(p, r, None)

\* loadPeriodData(period) called for the period chosen in the selector
LoadPeriodData(p, period) ==
    /\ res[p].pc \in {"idle", "done"}
    /\ res[p].calls < MaxCalls
    /\ loadPeriodDataOver(p, period, locations, res[p].calls + 1)
    /\ UNCHANGED <<locations, kmlOut, mapboxConfig, localStorage, kmlDoc, quotaEnv, fileEnv, runEnv, loadEnv>>

\* the answer to the pending Mapbox request arrives (lines 86-110, 1375-1386)
MapboxResponds(p, outcome) ==
    /\ res[p].pc = "mapbox"
    /\ LET r == [res[p] EXCEPT !.responses = Append(@, [to |-> "mapbox", outcome |-> outcome])]
       IN IF outcome.kind \in {"network_error", "http_error", "malformed"}
          THEN \* fetch rejects, !response.ok or response.json() throws
               /\ UNCHANGED <<mapboxConfig, localStorage>>
               /\ IF handlerOf("mapboxMapMatching") = "snapPathSmart.inner"
                  THEN CallOsrm(p, r, mapLayers)
                  ELSE Throws(p, r, mapLayers, "mapboxMapMatching")
          ELSE \* the body was parsed: the call is counted and saved
               /\ mapboxConfig' = [mapboxConfig EXCEPT !.usageCount = @ + 1]
               /\ localStorage' = saveMapboxConfig(mapboxConfig')
               /\ IF outcome.kind = "ok" /\ mapboxResultUsable(mapboxCoordinates(outcome.geometry))
                  THEN SmartReturns(p, r, mapLayers, Some(mapboxCoordinates(outcome.geometry)))
                  ELSE CallOsrm(p, r, mapLayers)
    /\ UNCHANGED <<locations, kmlOut, kmlDoc, quotaEnv, fileEnv, runEnv, loadEnv>>

\* the answer to the pending OSRM match request of chunk i arrives (1415-1440)
OsrmMatchResponds(p, outcome) ==
    /\ res[p].pc = "match"
    /\ LET r == [res[p] EXCEPT !.responses = Append(@, [to |-> "match", outcome |-> outcome])]
           raw == rawOf(r.periodLocations)
           chunk == chunkAt(raw, r.i)
       IN IF outcome.kind \in {"network_error", "http_error", "malformed"}
          THEN Throws(p, r, mapLayers, "snapPathOSRM")
          ELSE IF outcome.kind = "empty"
          THEN /\ res' = [res EXCEPT ![p] = [r EXCEPT
                             !.pc = "route",
                             !.requests = Append(@, [to |-> "route", i |-> r.i])]]
               /\ UNCHANGED <<mapLayers, currentMapData>>
          ELSE OsrmLoopFrom(p, r, mapLayers, r.i + chunkSize,
                            r.snapped \o matchedOrRaw(outcome.geometry, chunk))
    /\ UNCHANGED <<locations, kmlOut, mapboxConfig, localStorage, kmlDoc, quotaEnv, fileEnv, runEnv, loadEnv>>

\* the answer to the pending OSRM route request of chunk i arrives (1421-1432)
OsrmRouteResponds(p, outcome) ==
    /\ res[p].pc = "route"
    /\ LET r == [res[p] EXCEPT !.responses = Append(@, [to |-> "route", outcome |-> outcome])]
           raw == rawOf(r.periodLocations)
           chunk == chunkAt(raw, r.i)
       IN IF outcome.kind \in {"network_error", "malformed"}
          THEN \* fetch rejects or r2.json() throws
               Throws(p, r, mapLayers, "snapPathOSRM")
          ELSE IF outcome.kind = "ok"
          THEN OsrmLoopFrom(p, r, mapLayers, r.i + chunkSize,
                            r.snapped \o swapLonLat(outcome.geometry))
          ELSE \* !r2.ok, or no route in the body: the raw chunk
               OsrmLoopFrom(p, r, mapLayers, r.i + chunkSize,
                            r.snapped \o swapLonLat(chunk))
    /\ UNCHANGED <<locations, kmlOut, mapboxConfig, localStorage, kmlDoc, quotaEnv, fileEnv, runEnv, loadEnv>>

-----------------------------------------------------------------------------
(* Inputs of the export path *)

MaxLen == 4          \* longest untagged point list
MaxTaggedLen == 2    \* longest point list with activity types

SeqsUpTo(S, n) == UNION { [1..k -> S] : k \in 0..n }

CoordA == <<520000000, 130000000>>
CoordB == <<521000000, 131000000>>
CoordOutOfRange == <<900000001, 130000000>>
CoordNoLat == <<0, 130000000>>

PlainTimes == {1000, 1001, 1001 + defaultGap + 1}
PlainPoints ==
    { Pt(c[1], c[2], t, "", "") : c \in {CoordA, CoordB, CoordOutOfRange}, t \in PlainTimes }

TaggedTimes == {1000, 1001, 1001 + walkGap, 1001 + defaultGap, 1001 + fastGap}
TaggedPoints ==
    { Pt(c[1], c[2], t, "activity_path", a) :
        c \in {CoordA, CoordB, CoordNoLat}, t \in TaggedTimes, a \in {"", "walking", "in bus"} }

\* activity types as they may stand in a record
ActivityTypes ==
    {"", "unknown", "walking", "WALKING", "on foot", "on-foot", "running",
     "in passenger vehicle", "IN PASSENGER VEHICLE", "driving", "in bus", "bus",
     "in train", "train", "in subway", "In Tram", "in ferry", "cycling"}

\* two points at distinct coordinates, one millisecond apart, of any two types
TypedPairs ==
    { <<Pt(CoordA[1], CoordA[2], 1000, "activity_path", a),
        Pt(CoordB[1], CoordB[2], 1001, "activity_path", b)>> :
        a \in ActivityTypes, b \in ActivityTypes }

ExportInputs ==
    SeqsUpTo(PlainPoints, MaxLen) \cup SeqsUpTo(TaggedPoints, MaxTaggedLen) \cup TypedPairs

PeriodChoices ==
    { [id |-> 1, startDate |-> 1000, endDate |-> 1001 + fastGap],
      [id |-> 2, startDate |-> 1001, endDate |-> 1001 + defaultGap + 1] }

-----------------------------------------------------------------------------
(* The export path as a state machine *)

InitExport ==
    /\ locations \in ExportInputs
    /\ kmlOut = NoKml
    /\ mapboxConfig = IdleConfig
    /\ localStorage = None
    /\ res = [p \in Slots |-> IdleSlot]
    /\ mapLayers = None
    /\ currentMapData = None
    /\ kmlDoc = None
    /\ mapboxUsageReset = None
    /\ now = FirstMonth
    /\ windowConfig = None
    /\ NoFileLoaded

\* the export options read from the page (lines 967-970)
Style(labels, tickmarks, trackpoints) ==
    [lineColor |-> "red", showLabels |-> labels, showTickmarks |-> tickmarks,
     showTrackpoints |-> trackpoints]

PlainStyle == Style(FALSE, FALSE, FALSE)

\* processPeriods / downloadPeriodKML: generateKML(period), then downloadKML of
\* what it returned, with the options `style` set on the page
ExportKML(period, style) ==
    /\ kmlOut' = generateKML(locations, period)
    /\ kmlDoc' = Some([period |-> period, style |-> style,
                       content |-> kmlDocument(kmlOut', style)])
    /\ locations' = locationsAfterExport(locations, period)
    /\ UNCHANGED <<mapboxConfig, localStorage, res, mapLayers, currentMapData, quotaEnv, fileEnv, loadEnv>>

\* an export with no waypoint option set
GenerateKML(period) == ExportKML(period, PlainStyle) /\ UNCHANGED runEnv

NextExport == \E period \in PeriodChoices : GenerateKML(period)

SpecExport == InitExport /\ [][NextExport]_vars

-----------------------------------------------------------------------------
(* The export with every combination of waypoint options *)

MaxDocLen == 4       \* longest point list of the serializer runs

\* two places visited twice, half an hour and a millisecond apart; a point without
\* latitude and a point out of range in between
DocPoints ==
    { Pt(CoordA[1], CoordA[2], 1000, "", ""),
      Pt(CoordB[1], CoordB[2], 1001, "", ""),
      Pt(CoordNoLat[1], CoordNoLat[2], 1001, "", ""),
      Pt(CoordOutOfRange[1], CoordOutOfRange[2], 1001, "", ""),
      Pt(CoordA[1], CoordA[2], 1001 + defaultGap + 1, "", ""),
      Pt(CoordB[1], CoordB[2], 1001 + defaultGap + 1, "", "") }

DocInputs == SeqsUpTo(DocPoints, MaxDocLen)

\* no waypoint option, or one of the three
StyleChoices ==
    { Style(FALSE, FALSE, FALSE), Style(TRUE, FALSE, FALSE),
      Style(FALSE, TRUE, FALSE), Style(FALSE, FALSE, TRUE) }

InitDocument ==
    /\ locations \in DocInputs
    /\ kmlOut = NoKml
    /\ mapboxConfig = IdleConfig
    /\ localStorage = None
    /\ res = [p \in Slots |-> IdleSlot]
    /\ mapLayers = None
    /\ currentMapData = None
    /\ kmlDoc = None
    /\ mapboxUsageReset = None
    /\ now = FirstMonth
    /\ windowConfig = None
    /\ NoFileLoaded

NextDocument ==
    \E period \in PeriodChoices : \E style \in StyleChoices :
        ExportKML(period, style) /\ UNCHANGED runEnv

SpecDocument == InitDocument /\ [][NextDocument]_vars

-----------------------------------------------------------------------------
(* Inputs of the preview path *)

MaxPreviewLen == 3   \* longest short point list
ExtraPoints == 2     \* points beyond one full chunk in the long point lists
MaxGeomLen == 2      \* longest geometry a provider answers

\* B is the earlier place; each place untagged and tagged activity_path; a point
\* without latitude, untagged and tagged
PreviewPoints ==
    { Pt(CoordA[1], CoordA[2], 1001, "", ""),
      Pt(CoordA[1], CoordA[2], 1001, "activity_path", "walking"),
      Pt(CoordB[1], CoordB[2], 1000, "", ""),
      Pt(CoordB[1], CoordB[2], 1000, "activity_path", "walking"),
      Pt(CoordNoLat[1], CoordNoLat[2], 1001, "", ""),
      Pt(CoordNoLat[1], CoordNoLat[2], 1000, "activity_path", "walking") }

\* n untagged points at pairwise distinct coordinates, 10 microdegrees apart
LongList(n) == [k \in 1..n |-> Pt(520000000 + 10 * k, 130000000 + 10 * k, 1000 + k, "", "")]

PreviewInputs ==
    SeqsUpTo(PreviewPoints, MaxPreviewLen)
        \cup { LongList(n) : n \in {chunkSize, chunkSize + 1, chunkSize + ExtraPoints} }

\* period 1 holds every point, period 2 only the points of the first millisecond
PreviewPeriods ==
    { [id |-> 1, startDate |-> 1000, endDate |-> 1001 + fastGap],
      [id |-> 2, startDate |-> 1000, endDate |-> 1000] }

\* what a provider can answer, as [lon, lat] pairs
GeoPoints == { <<130000500, 520000500>>, <<131000500, 521000500>> }
Geometries(minLen) == UNION { [1..k -> GeoPoints] : k \in minLen..MaxGeomLen }

Failure(kind) == [kind |-> kind, geometry |-> <<>>]
Answer(geometry) == [kind |-> "ok", geometry |-> geometry]

MapboxOutcomes ==
    { Failure(k) : k \in {"network_error", "http_error", "empty"} }
        \cup { Answer(g) : g \in Geometries(1) }
MatchOutcomes ==
    { Failure(k) : k \in {"http_error", "malformed", "empty"} }
        \cup { Answer(g) : g \in Geometries(1) }
RouteOutcomes ==
    { Failure(k) : k \in {"network_error", "http_error", "no_route"} }
        \cup { Answer(g) : g \in Geometries(0) }

\* the quota states a session can start in: no key; a key with one call left
\* under the threshold; a key at the threshold
PreviewConfigs ==
    { IdleConfig,
      [apiKey |-> Some("pk.key"), usageCount |-> (fallbackThresholdTenths * monthlyLimit) \div 10 - 1],
      [apiKey |-> Some("pk.key"), usageCount |-> (fallbackThresholdTenths * monthlyLimit) \div 10] }

-----------------------------------------------------------------------------
(* The preview path as a state machine *)

PreviewSlots == {1}

InitPreview ==
    /\ locations \in PreviewInputs
    /\ kmlOut = NoKml
    /\ mapboxConfig \in PreviewConfigs
    /\ localStorage = (IF mapboxConfig.apiKey = None THEN None ELSE saveMapboxConfig(mapboxConfig))
    /\ res = [p \in Slots |-> IdleSlot]
    /\ mapLayers = None
    /\ currentMapData = None
    /\ kmlDoc = None
    /\ mapboxUsageReset = None
    /\ now = FirstMonth
    /\ windowConfig = None
    /\ NoFileLoaded

NextPreview ==
    \E p \in PreviewSlots :
        \/ \E period \in PreviewPeriods : LoadPeriodData(p, period)
        \/ \E outcome \in MapboxOutcomes : MapboxResponds(p, outcome)
        \/ \E outcome \in MatchOutcomes : OsrmMatchResponds(p, outcome)
        \/ \E outcome \in RouteOutcomes : OsrmRouteResponds(p, outcome)

SpecPreview == InitPreview /\ [][NextPreview]_vars

-----------------------------------------------------------------------------
(* The quota across resolutions, key changes, page loads and months *)

MaxMonths == 1       \* month rollovers in a run

\* loadMapboxConfig (lines 17-42) on a fresh page: the configuration and the
\* 'mapboxUsageReset' item it leaves
loadMapboxConfig(token, saved, lastReset, currentMonth) ==
    LET fromConfig == [IdleConfig EXCEPT !.apiKey = token]
    IN IF saved = None THEN [config |-> fromConfig, lastReset |-> lastReset]
       ELSE LET loaded ==
                    [apiKey |-> IF fromConfig.apiKey = None THEN saved[1].apiKey
                                ELSE fromConfig.apiKey,
                     usageCount |-> saved[1].usageCount]
            IN IF lastReset # Some(currentMonth)
               THEN [config |-> [loaded EXCEPT !.usageCount = 0],
                     lastReset |-> Some(currentMonth)]
               ELSE [config |-> loaded, lastReset |-> lastReset]

\* the page is loaded again: every global starts over (pending resolutions are
\* gone with the old page), loadMapboxConfig runs, the same file is loaded again
Reload ==
    LET l == loadMapboxConfig(windowConfig, localStorage, mapboxUsageReset, now)
    IN /\ mapboxConfig' = l.config
       /\ mapboxUsageReset' = l.lastReset
       /\ res' = [p \in Slots |-> [IdleSlot EXCEPT !.calls = res[p].calls]]
       /\ mapLayers' = None
       /\ currentMapData' = None
       /\ UNCHANGED <<locations, kmlOut, kmlDoc, localStorage, now, windowConfig, fileEnv, runEnv, loadEnv>>

\* click on "save" with a key that starts with pk. (lines 155-161); the button is
\* hidden when the key comes from config.js
SaveMapboxKey(apiKey) ==
    /\ windowConfig = None
    /\ mapboxConfig' = [mapboxConfig EXCEPT !.apiKey = Some(apiKey)]
    /\ localStorage' = saveMapboxConfig(mapboxConfig')
    /\ UNCHANGED <<locations, kmlOut, kmlDoc, res, mapLayers, currentMapData, quotaEnv, fileEnv, runEnv, loadEnv>>

\* click on "clear" (lines 168-172)
ClearMapboxKey ==
    /\ windowConfig = None
    /\ mapboxConfig' = [apiKey |-> None, usageCount |-> 0]
    /\ localStorage' = saveMapboxConfig(mapboxConfig')
    /\ UNCHANGED <<locations, kmlOut, kmlDoc, res, mapLayers, currentMapData, quotaEnv, fileEnv, runEnv, loadEnv>>

\* the calendar month ends
MonthRollover ==
    /\ now < FirstMonth + MaxMonths
    /\ now' = now + 1
    /\ UNCHANGED <<locations, kmlOut, kmlDoc, mapboxConfig, localStorage, res, mapLayers,
                   currentMapData, mapboxUsageReset, windowConfig, fileEnv, runEnv, loadEnv>>

\* the smallest count at which the primary provider is not eligible
ThresholdCount == (fallbackThresholdTenths * monthlyLimit) \div 10

\* two usable untagged points, the later one first
QuotaInput ==
    <<Pt(CoordA[1], CoordA[2], 1001, "", ""), Pt(CoordB[1], CoordB[2], 1000, "", "")>>

QuotaPeriod == [id |-> 1, startDate |-> 1000, endDate |-> 1001 + fastGap]

QuotaGeometry == << <<130000500, 520000500>>, <<131000500, 521000500>> >>

QuotaMapboxOutcomes ==
    { Failure("network_error"), Failure("http_error"), Failure("empty"), Answer(QuotaGeometry) }
QuotaMatchOutcomes == { Failure("http_error"), Answer(QuotaGeometry) }

\* counts a session can have reached: none, and the last one under the threshold
QuotaCounts == {0, ThresholdCount - 1}

\* a session under way in the first month: nothing stored yet, or a key in use
\* with its count persisted (by the save click or by the last counted call), the
\* month marker written by an earlier page load of this month or never written
InitQuota ==
    /\ locations = QuotaInput
    /\ kmlOut = NoKml
    /\ kmlDoc = None
    /\ res = [p \in Slots |-> IdleSlot]
    /\ mapLayers = None
    /\ currentMapData = None
    /\ now = FirstMonth
    /\ windowConfig \in {None, Some("pk.config")}
    /\ \/ /\ mapboxConfig = [IdleConfig EXCEPT !.apiKey = windowConfig]
          /\ localStorage = None
          /\ mapboxUsageReset = None
       \/ /\ \E n \in QuotaCounts :
                mapboxConfig = [apiKey |-> IF windowConfig = None THEN Some("pk.key")
                                           ELSE windowConfig,
                                usageCount |-> n]
          /\ localStorage = saveMapboxConfig(mapboxConfig)
          /\ mapboxUsageReset \in {None, Some(FirstMonth)}
    /\ NoFileLoaded

NextQuota ==
    \/ \E p \in Slots : LoadPeriodData(p, QuotaPeriod)
    \/ \E p \in Slots : \E outcome \in QuotaMapboxOutcomes : MapboxResponds(p, outcome)
    \/ \E p \in Slots : \E outcome \in QuotaMatchOutcomes : OsrmMatchResponds(p, outcome)
    \/ SaveMapboxKey("pk.key")
    \/ ClearMapboxKey
    \/ Reload
    \/ MonthRollover

SpecQuota == InitQuota /\ [][NextQuota]_vars

-----------------------------------------------------------------------------
(* Resolutions whose every request is answered *)

\* a period without points; one usable point; one point without latitude; two
\* usable points, untagged and tagged; a list that takes two chunks
ResolveInputs ==
    { <<>>,
      <<Pt(CoordA[1], CoordA[2], 1001, "", "")>>,
      <<Pt(CoordNoLat[1], CoordNoLat[2], 1001, "", "")>>,
      QuotaInput,
      <<Pt(CoordB[1], CoordB[2], 1000, "activity_path", "walking"),
        Pt(CoordA[1], CoordA[2], 1001, "activity_path", "walking")>>,
      LongList(chunkSize + 2) }

OnePointGeometry == << <<130000500, 520000500>> >>

ResolveMapboxOutcomes ==
    { Failure("http_error"), Failure("empty"), Answer(OnePointGeometry), Answer(QuotaGeometry) }
ResolveMatchOutcomes ==
    { Failure("http_error"), Failure("empty"), Answer(OnePointGeometry), Answer(QuotaGeometry) }
ResolveRouteOutcomes ==
    { Failure("network_error"), Failure("http_error"), Answer(<<>>), Answer(QuotaGeometry) }

InitResolve ==
    /\ locations \in ResolveInputs
    /\ kmlOut = NoKml
    /\ kmlDoc = None
    /\ mapboxConfig \in PreviewConfigs
    /\ localStorage = (IF mapboxConfig.apiKey = None THEN None ELSE saveMapboxConfig(mapboxConfig))
    /\ res = [p \in Slots |-> IdleSlot]
    /\ mapLayers = None
    /\ currentMapData = None
    /\ mapboxUsageReset = None
    /\ now = FirstMonth
    /\ windowConfig = None
    /\ NoFileLoaded

MapboxAnswers(p) == \E outcome \in ResolveMapboxOutcomes : MapboxResponds(p, outcome)
MatchAnswers(p) == \E outcome \in ResolveMatchOutcomes : OsrmMatchResponds(p, outcome)
RouteAnswers(p) == \E outcome \in ResolveRouteOutcomes : OsrmRouteResponds(p, outcome)

NextResolve ==
    \E p \in PreviewSlots :
        \/ LoadPeriodData(p, QuotaPeriod)
        \/ MapboxAnswers(p)
        \/ MatchAnswers(p)
        \/ RouteAnswers(p)

\* every pending fetch is settled in the end, by an answer or by a failure
RequestsComplete ==
    \A p \in PreviewSlots :
        /\ WF_vars(MapboxAnswers(p))
        /\ WF_vars(MatchAnswers(p))
        /\ WF_vars(RouteAnswers(p))

SpecResolve == InitResolve /\ [][NextResolve]_vars /\ RequestsComplete

-----------------------------------------------------------------------------
(* Two neighbouring points, exported and previewed over the secondary tier *)

MaxNear == 2         \* coordinates are 2^0 .. 2^MaxNear microdegrees

\* 1, 2 and 4 microdegrees: 1e-7, 2e-7 and 4e-7 degrees, whose differences are
\* exact in floating point too
NearValues == { 2^k : k \in 0..MaxNear }

\* two untagged points one millisecond apart, each axis 0 to 3 microdegrees apart
NearPairs ==
    { <<Pt(a[1], a[2], 1000, "", ""), Pt(b[1], b[2], 1001, "", "")>> :
        a \in NearValues \X NearValues, b \in NearValues \X NearValues }

InitNear ==
    /\ locations \in NearPairs
    /\ kmlOut = NoKml
    /\ kmlDoc = None
    /\ mapboxConfig = IdleConfig
    /\ localStorage = None
    /\ res = [p \in Slots |-> IdleSlot]
    /\ mapLayers = None
    /\ currentMapData = None
    /\ mapboxUsageReset = None
    /\ now = FirstMonth
    /\ windowConfig = None
    /\ NoFileLoaded

\* the export and the preview of the period that holds both points; the match
\* request is answered without matchings, the route request with an HTTP error or
\* without a route, so the resolver filters the raw chunk
NextNear ==
    \/ GenerateKML(QuotaPeriod)
    \/ LoadPeriodData(1, QuotaPeriod)
    \/ OsrmMatchResponds(1, Failure("empty"))
    \/ \E kind \in {"http_error", "no_route"} : OsrmRouteResponds(1, Failure(kind))

SpecNear == InitNear /\ [][NextNear]_vars

-----------------------------------------------------------------------------
(* Two previews requested in succession *)

\* three usable untagged points, one millisecond apart
SuccessionInput ==
    <<Pt(CoordB[1], CoordB[2], 1000, "", ""), Pt(CoordA[1], CoordA[2], 1001, "", ""),
      Pt(CoordB[1], CoordA[2], 1002, "", "")>>

\* the period of the first two points and the period of the last two
EarlierPeriod == [id |-> 1, startDate |-> 1000, endDate |-> 1001]
LaterPeriod == [id |-> 2, startDate |-> 1001, endDate |-> 1002]

InitSuccession ==
    /\ locations = SuccessionInput
    /\ kmlOut = NoKml
    /\ kmlDoc = None
    /\ mapboxConfig \in PreviewConfigs
    /\ localStorage = (IF mapboxConfig.apiKey = None THEN None ELSE saveMapboxConfig(mapboxConfig))
    /\ res = [p \in Slots |-> IdleSlot]
    /\ mapLayers = None
    /\ currentMapData = None
    /\ mapboxUsageReset = None
    /\ now = FirstMonth
    /\ windowConfig = None
    /\ NoFileLoaded

\* the preview of the earlier period is requested first
RequestEarlier ==
    /\ res[1].calls = 0
    /\ res[2].calls = 0
    /\ LoadPeriodData(1, EarlierPeriod)

\* the preview of the later period is requested next, whether the first
\* resolution has ended or still awaits a provider
RequestLater ==
    /\ res[1].calls = 1
    /\ res[2].calls = 0
    /\ LoadPeriodData(2, LaterPeriod)

NextSuccession ==
    \/ RequestEarlier
    \/ RequestLater
    \/ \E p \in Slots : \E outcome \in QuotaMapboxOutcomes : MapboxResponds(p, outcome)
    \/ \E p \in Slots : \E outcome \in ResolveMatchOutcomes : OsrmMatchResponds(p, outcome)
    \/ \E p \in Slots : \E outcome \in ResolveRouteOutcomes : OsrmRouteResponds(p, outcome)

SpecSuccession == InitSuccession /\ [][NextSuccession]_vars

-----------------------------------------------------------------------------
(* File loads and period edits: processFile, addPeriod, removePeriod,        *)
(* updatePeriodDate                                                          *)

MaxPeriods == 2      \* periods in the list

\* the count of records excluding the end of the period
countRecordsExclusiveEnd(locs, period) ==
    IF period.startDate = InvalidDate \/ period.endDate = InvalidDate THEN 0
    ELSE Cardinality({ k \in 1..Len(locs) :
                         TsOf(locs[k]) >= period.startDate /\ TsOf(locs[k]) < period.endDate })

\* countRecordsInPeriod (lines 819-830); a comparison with NaN is false
countRecordsInPeriod(locs, period) ==
    IF period.startDate = InvalidDate \/ period.endDate = InvalidDate THEN 0
    ELSE Cardinality({ k \in 1..Len(locs) :
                         TsOf(locs[k]) >= period.startDate /\ TsOf(locs[k]) <= period.endDate })

\* validatePeriodDates (lines 787-817) on the period object
validatePeriodDates(period) ==
    LET p1 == IF DateLt(period.endDate, period.startDate)
              THEN [period EXCEPT !.endDate = period.startDate] ELSE period
    IN IF DateGt(p1.startDate, p1.endDate)
       THEN [p1 EXCEPT !.startDate = p1.endDate] ELSE p1

\* the filter of removePeriod without the renumbering
removePeriodKeepIds(ps, periodId) == SelectSeq(ps, LAMBDA q : q.id # periodId)

\* lines 695-699: the filter and the renumbering of removePeriod
removePeriod(ps, periodId) ==
    LET kept == SelectSeq(ps, LAMBDA q : q.id # periodId)
    IN [k \in 1..Len(kept) |-> [kept[k] EXCEPT !.id = k]]

\* renderPeriods (lines 709-722): the counts written while the elements are
\* built, then validatePeriodDates of every period
renderedSummary(ps, locs) == [k \in 1..Len(ps) |-> countRecordsInPeriod(locs, ps[k])]
renderedPeriods(ps) == [k \in 1..Len(ps) |-> validatePeriodDates(ps[k])]

\* refreshMapAndDownloadSections (lines 858-887): the selector was rebuilt by
\* renderPeriods or by the last refresh and reads '', so the first period is
\* selected and loadPeriodData is called for it; at most one resolution started
\* this way is in flight
RefreshMap(ps, locs) ==
    IF ps = <<>> THEN UNCHANGED <<res, mapLayers, currentMapData>>
    ELSE /\ res[1].pc \in {"idle", "done"}
         /\ loadPeriodDataOver(1, ps[1], locs, res[1].calls)

\* addPeriod(startDate, endDate) from periods.push to the refresh (lines 682-691)
AddPeriodWith(sDate, eDate, locs) ==
    LET pushed == Append(periods, [id |-> Len(periods) + 1, startDate |-> sDate, endDate |-> eDate])
    IN /\ periodSummary' = renderedSummary(pushed, locs)
       /\ periods' = renderedPeriods(pushed)
       /\ RefreshMap(periods', locs)

\* click on "add period": addPeriod(event), whose dates are the global date range
\* or, without one, the clock (lines 671-681); the tab is open once a file was
\* parsed
AddPeriod ==
    /\ locationData # None
    /\ Len(periods) < MaxPeriods
    /\ IF globalDateRange # None
       THEN AddPeriodWith(globalDateRange[1].min, globalDateRange[1].max, locations)
       ELSE AddPeriodWith(dateNow, dateNow, locations)
    /\ UNCHANGED <<locations, locationData, globalDateRange, alerts>>
    /\ UNCHANGED <<kmlOut, kmlDoc, mapboxConfig, localStorage, quotaEnv, runEnv, loadEnv>>

\* A pending timer of processPeriods holds the period object its closure
\* captured: the place of the object in the list (ref), or the object itself
\* once it is in the list no more (ref = 0).
TimerOf(k) == [ref |-> k, period |-> None]

\* the period object a timer's closure sees
capturedPeriod(timer) == IF timer.ref > 0 THEN periods[timer.ref] ELSE timer.period[1]

\* the pending timers after removePeriod(periodId): the removed object leaves
\* the list as it is, the objects behind it are the ones that are renumbered
timersAfterRemoval(timers, periodId) ==
    [k \in 1..Len(timers) |->
        IF timers[k].ref = periodId THEN [ref |-> 0, period |-> Some(periods[periodId])]
        ELSE IF timers[k].ref > periodId THEN [timers[k] EXCEPT !.ref = @ - 1]
        ELSE timers[k]]

\* click on "remove" of period periodId (lines 694-707)
RemovePeriod(periodId) ==
    /\ periodId \in 1..Len(periods)
    /\ LET renumbered == removePeriod(periods, periodId)
       IN /\ periodSummary' = renderedSummary(renumbered, locations)
          /\ periods' = renderedPeriods(renumbered)
          /\ RefreshMap(periods', locations)
    /\ processingRun' = [processingRun EXCEPT !.timers = timersAfterRemoval(@, periodId)]
    /\ UNCHANGED <<locations, locationData, globalDateRange, alerts>>
    /\ UNCHANGED <<kmlOut, kmlDoc, mapboxConfig, localStorage, quotaEnv, loadEnv>>

\* a date input of period periodId changes to `value` (lines 765-785); the
\* summary of this period is counted after the validation
UpdatePeriodDate(periodId, field, value) ==
    /\ periodId \in 1..Len(periods)
    /\ LET edited == IF field = "startDate" THEN [periods[periodId] EXCEPT !.startDate = value]
                     ELSE [periods[periodId] EXCEPT !.endDate = value]
           period == validatePeriodDates(edited)
       IN /\ periods' = [periods EXCEPT ![periodId] = period]
          /\ periodSummary' = [periodSummary EXCEPT ![periodId] = countRecordsInPeriod(locations, period)]
          /\ RefreshMap(periods', locations)
    /\ UNCHANGED <<locations, locationData, globalDateRange, alerts>>
    /\ UNCHANGED <<kmlOut, kmlDoc, mapboxConfig, localStorage, quotaEnv, runEnv, loadEnv>>

\* the try block of reader.onload (lines 396-418) for a file whose text is `doc`
onload(doc) ==
    /\ Len(periods) < MaxPeriods
    /\ IF doc.shape = "unparsable"
       THEN \* JSON.parse throws before locationData is assigned
            /\ alerts' = <<InvalidJson>>
            /\ UNCHANGED <<locations, locationData, globalDateRange, periods, periodSummary,
                           res, mapLayers, currentMapData>>
       ELSE LET a == analyzeLocationData(doc)
                \* window.convertedLocations || locationData.locations (line 408)
                inUse == IF a.stored # None THEN a.stored[1].convertedLocations
                         ELSE IF globalDateRange # None THEN locations
                         ELSE IF doc.shape = "standard" THEN doc.locations
                         ELSE <<>>
            IN /\ locationData' = Some(doc)
               /\ alerts' = a.alerts
               /\ globalDateRange' = IF a.stored # None THEN Some(a.stored[1].globalDateRange)
                                     ELSE globalDateRange
               /\ locations' = inUse
               /\ IF inUse # <<>> /\ globalDateRange' # None
                  THEN \* createDefaultPeriod (lines 664-669)
                       AddPeriodWith(globalDateRange'[1].min, globalDateRange'[1].max, inUse)
                  ELSE UNCHANGED <<periods, periodSummary, res, mapLayers, currentMapData>>
    /\ UNCHANGED <<kmlOut, kmlDoc, mapboxConfig, localStorage, quotaEnv, runEnv>>

\* a file is chosen on an idle page and read: processFile from the selection to
\* the reset of isProcessingFile, no other selection arriving meanwhile
ProcessFile(doc) == onload(doc) /\ UNCHANGED loadEnv

MaxIgnored == 1      \* selections logged as ignored

ReadError == "Error reading file. Please try again."
NoJsonFile == "Please select a valid JSON file."

\* every selection is taken, whatever is in progress
acceptsFileAlways(processing) == TRUE

\* file && !isProcessingFile (lines 341, 361 and 375)
acceptsFile(processing) == ~processing

\* a file is chosen in the input or a .json file is dropped: handleFileSelect or
\* handleDrop, then processFile up to reader.readAsText (lines 338-349, 356-372,
\* 374-395, 432)
SelectFile(doc) ==
    /\ IF acceptsFile(isProcessingFile)
       THEN /\ Len(periods) + Len(fileReaders) + resetTimers < MaxPeriods
            /\ isProcessingFile' = TRUE
            /\ fileReaders' = Append(fileReaders, doc)
            /\ UNCHANGED <<resetTimers, ignoredSelections>>
       ELSE /\ ignoredSelections < MaxIgnored
            /\ ignoredSelections' = ignoredSelections + 1
            /\ UNCHANGED <<isProcessingFile, fileReaders, resetTimers>>
    /\ UNCHANGED <<locations, kmlOut, kmlDoc, mapboxConfig, localStorage, res, mapLayers,
                   currentMapData, quotaEnv, fileEnv, runEnv>>

\* a file that is no .json file is dropped (lines 356-372)
DropOtherFile ==
    /\ IF acceptsFile(isProcessingFile)
       THEN alerts' = <<NoJsonFile>> /\ UNCHANGED ignoredSelections
       ELSE /\ ignoredSelections < MaxIgnored
            /\ ignoredSelections' = ignoredSelections + 1
            /\ UNCHANGED alerts
    /\ UNCHANGED <<isProcessingFile, fileReaders, resetTimers>>
    /\ UNCHANGED <<locations, locationData, globalDateRange, periods, periodSummary>>
    /\ UNCHANGED <<kmlOut, kmlDoc, mapboxConfig, localStorage, res, mapLayers,
                   currentMapData, quotaEnv, runEnv>>

\* the earliest pending reader has read its file: reader.onload, whose finally
\* block sets the timeout that resets isProcessingFile (lines 396-424)
ReaderLoads ==
    /\ fileReaders # <<>>
    /\ onload(Head(fileReaders))
    /\ fileReaders' = Tail(fileReaders)
    /\ resetTimers' = resetTimers + 1
    /\ UNCHANGED <<isProcessingFile, ignoredSelections>>

\* the earliest pending reader fails: reader.onerror (lines 426-430)
ReaderFails ==
    /\ fileReaders # <<>>
    /\ fileReaders' = Tail(fileReaders)
    /\ alerts' = <<ReadError>>
    /\ isProcessingFile' = FALSE
    /\ UNCHANGED <<resetTimers, ignoredSelections>>
    /\ UNCHANGED <<locations, locationData, globalDateRange, periods, periodSummary>>
    /\ UNCHANGED <<kmlOut, kmlDoc, mapboxConfig, localStorage, res, mapLayers,
                   currentMapData, quotaEnv, runEnv>>

\* a timeout of line 420 fires
ResetTimerFires ==
    /\ resetTimers > 0
    /\ resetTimers' = resetTimers - 1
    /\ isProcessingFile' = FALSE
    /\ UNCHANGED <<fileReaders, ignoredSelections>>
    /\ UNCHANGED <<locations, kmlOut, kmlDoc, mapboxConfig, localStorage, res, mapLayers,
                   currentMapData, quotaEnv, fileEnv, runEnv>>

\* click on "Download KML" of period periodId (lines 1173-1179)
DownloadPeriodKML(periodId) ==
    /\ periodId \in 1..Len(periods)
    /\ ExportKML(periods[periodId], PlainStyle)
    /\ UNCHANGED runEnv

NoPeriods == "No periods selected for processing."

\* click on "Process": processPeriods (lines 914-949) up to the timers it sets,
\* one per period of the list; the button is disabled while a run is pending
ProcessPeriods ==
    /\ processingRun.timers = <<>>
    /\ IF periods = <<>>
       THEN alerts' = <<NoPeriods>> /\ UNCHANGED processingRun
       ELSE /\ processingRun' = [total |-> Len(periods),
                                 timers |-> [k \in 1..Len(periods) |-> TimerOf(k)],
                                 downloads |-> <<>>]
            /\ UNCHANGED alerts
    /\ UNCHANGED <<locations, locationData, globalDateRange, periods, periodSummary>>
    /\ UNCHANGED <<kmlOut, kmlDoc, mapboxConfig, localStorage, res, mapLayers, currentMapData,
                   quotaEnv, loadEnv>>

\* `period${period.id}_output.kml`
fileNameOf(id) == "period" \o ToString(id) \o "_output.kml"

\* the earliest pending timer of the run fires (lines 935-947): generateKML of
\* the captured period and downloadKML under the name of its id
RunTimerFires ==
    /\ processingRun.timers # <<>>
    /\ LET period == capturedPeriod(Head(processingRun.timers))
       IN /\ ExportKML(period, PlainStyle)
          /\ processingRun' = [processingRun EXCEPT !.timers = Tail(@),
                                                    !.downloads = Append(@, fileNameOf(period.id))]

\* a page on which no file was chosen yet
InitPage ==
    /\ locations = <<>>
    /\ kmlOut = NoKml
    /\ kmlDoc = None
    /\ mapboxConfig = IdleConfig
    /\ localStorage = None
    /\ res = [p \in Slots |-> IdleSlot]
    /\ mapLayers = None
    /\ currentMapData = None
    /\ mapboxUsageReset = None
    /\ now = FirstMonth
    /\ windowConfig = None
    /\ NoFileLoaded

-----------------------------------------------------------------------------
(* Normalization of one file *)

MaxEntries == 2      \* entries of a point list
MaxPathLen == 3      \* points of a timeline path
MaxSmallLen == 2     \* points of a timeline path next to a visit, or under date edits

\* positions in floating-point degrees; NearA is 1e-8 degrees north of A
PosA == <<DegOfE7(CoordA[1]), DegOfE7(CoordA[2])>>
PosB == <<DegOfE7(CoordB[1]), DegOfE7(CoordB[2])>>
PosC == <<DegOfE7(CoordB[1]), DegOfE7(CoordA[2])>>
PosNearA == <<Deg(CoordA[1], 1), DegOfE7(CoordA[2])>>
PosOutOfRange == <<DegOfE7(CoordOutOfRange[1]), DegOfE7(CoordOutOfRange[2])>>

\* a record from 10:00 to 10:10
ExampleTimes == [start |-> 36000000, end |-> 36600000]

Iso(ms) == [kind |-> "iso", ms |-> ms]
Digits(ms) == [kind |-> "digits", ms |-> ms]
NoTime == [kind |-> "missing", ms |-> 0]

ActivityRecord(startTime, endTime, timelinePath, waypoints, start, end, type) ==
    [kind |-> "activity", startTime |-> startTime, endTime |-> endTime,
     activity |-> [timelinePath |-> timelinePath, waypoints |-> waypoints,
                   start |-> start, end |-> end, type |-> type]]

VisitRecord(startTime, placeLocation) ==
    [kind |-> "visit", startTime |-> startTime, placeLocation |-> placeLocation]

TimelineRecord(timelinePath) ==
    ActivityRecord(Iso(ExampleTimes.start), Iso(ExampleTimes.end), timelinePath, <<>>, None, None,
                   "walking")

RecordsDoc(records) == [shape |-> "records", records |-> records]
StandardDoc(entries) == [shape |-> "standard", locations |-> entries]

\* the point-list entries: A, B and a latitude out of range as
\* latitudeE7/longitudeE7, and A as float lat/lng and as latE7/lngE7
StdEntries ==
    { Entry(c[1], c[2], None, None, 0, 0, t) : c \in {CoordA, CoordB, CoordOutOfRange}, t \in {1000, 1001} }
        \cup { Entry(0, 0, Some(PosA[1]), Some(PosA[2]), 0, 0, t) : t \in {1000, 1001} }
        \cup { Entry(0, 0, None, None, CoordA[1], CoordA[2], t) : t \in {1000, 1001} }

StandardDocs == { StandardDoc(l) : l \in SeqsUpTo(StdEntries, MaxEntries) }

\* the entries of a timeline path: A and B at the offsets 0, 5 and 10 minutes,
\* C at 10 minutes, NearA and a latitude out of range at 5 minutes
TimelineEntries ==
    { [point |-> Geo(c[1], c[2]), offset |-> Some(m)] : c \in {PosA, PosB}, m \in {0, 5, 10} }
        \cup { [point |-> Geo(PosC[1], PosC[2]), offset |-> Some(10)],
               [point |-> Geo(PosNearA[1], PosNearA[2]), offset |-> Some(5)],
               [point |-> Geo(PosOutOfRange[1], PosOutOfRange[2]), offset |-> Some(5)] }

TimelineDocs == { RecordsDoc(<<TimelineRecord(path)>>) : path \in SeqsUpTo(TimelineEntries, MaxPathLen) }

\* a visit before, between or at the points of an activity, in either order in
\* the file
SmallPaths ==
    SeqsUpTo({ [point |-> Geo(c[1], c[2]), offset |-> Some(m)] : c \in {PosA, PosB}, m \in {0, 5} },
             MaxSmallLen)

Visits ==
    { VisitRecord(Iso(t), g) :
        t \in {ExampleTimes.start - 60000, ExampleTimes.start + 4 * 60000,
               ExampleTimes.start + 5 * 60000},
        g \in {None, Geo(PosA[1], PosA[2]), Geo(PosB[1], PosB[2]),
               Geo(PosOutOfRange[1], PosOutOfRange[2])} }

MixedDocs ==
    { RecordsDoc(<<v, TimelineRecord(path)>>) : v \in Visits, path \in SmallPaths }
        \cup { RecordsDoc(<<TimelineRecord(path), v>>) : v \in Visits, path \in SmallPaths }

\* activities whose path is a waypoint array, a timeline path without offsets,
\* a timeline path with an entry that is no geo: point, or only a start and an end
Waypoints ==
    { Waypoint("latE7", CoordA[1], CoordA[2], DegOfE7(0), DegOfE7(0)),
      Waypoint("latlng", 0, 0, PosB[1], PosB[2]),
      Waypoint("latitudeE7", CoordB[1], CoordA[2], DegOfE7(0), DegOfE7(0)),
      Waypoint("latlng", 0, 0, PosOutOfRange[1], PosOutOfRange[2]),
      Waypoint("none", 0, 0, DegOfE7(0), DegOfE7(0)) }

OtherRecords ==
    { ActivityRecord(s, Iso(ExampleTimes.end), <<>>, w, None, None, "") :
        s \in {Iso(ExampleTimes.start), Digits(ExampleTimes.start), NoTime},
        w \in SeqsUpTo(Waypoints, 2) }
      \cup { ActivityRecord(Iso(ExampleTimes.start), Iso(ExampleTimes.end), <<>>, <<>>, g, h, "in bus") :
               g \in {None, Geo(PosA[1], PosA[2])}, h \in {None, Geo(PosB[1], PosB[2])} }
      \cup { TimelineRecord(<< [point |-> Geo(PosA[1], PosA[2]), offset |-> None],
                               [point |-> Geo(PosB[1], PosB[2]), offset |-> None] >>),
             TimelineRecord(<< [point |-> None, offset |-> Some(0)],
                               [point |-> Geo(PosB[1], PosB[2]), offset |-> Some(5)] >>),
             \* a place left and visited again, reported twice at first
             TimelineRecord(<< [point |-> Geo(PosA[1], PosA[2]), offset |-> Some(0)],
                               [point |-> Geo(PosA[1], PosA[2]), offset |-> Some(0)],
                               [point |-> Geo(PosB[1], PosB[2]), offset |-> Some(5)],
                               [point |-> Geo(PosA[1], PosA[2]), offset |-> Some(10)] >>),
             [kind |-> "other"] }

OtherDocs == { RecordsDoc(<<r>>) : r \in OtherRecords } \cup { RecordsDoc(<<>>) }

BadDocs == { [shape |-> "object"], [shape |-> "unparsable"] }

Documents == StandardDocs \cup TimelineDocs \cup MixedDocs \cup OtherDocs \cup BadDocs

\* one file is loaded on a fresh page, and its default period is downloaded
NextNormalize ==
    \/ locationData = None /\ \E doc \in Documents : ProcessFile(doc)
    \/ DownloadPeriodKML(1)

SpecNormalize == InitPage /\ [][NextNormalize]_vars

-----------------------------------------------------------------------------
(* One file, the dates of its period edited, previews and exports *)

\* point lists with entries at 10:00 and 10:05, in any order
SelectEntries ==
    { Entry(c[1], c[2], None, None, 0, 0, t) :
        c \in {CoordA, CoordB}, t \in {ExampleTimes.start, ExampleTimes.start + 5 * 60000} }

SelectDocs ==
    { RecordsDoc(<<TimelineRecord(path)>>) : path \in SmallPaths }
        \cup { StandardDoc(l) : l \in SeqsUpTo(SelectEntries, MaxSmallLen) }

\* the values typed into a date input: 10:00, 10:05 and 10:10
SelectDates == { ExampleTimes.start + m * 60000 : m \in {0, 5, 10} }

NextSelect ==
    \/ locationData = None /\ \E doc \in SelectDocs : ProcessFile(doc)
    \/ \E field \in {"startDate", "endDate"} : \E value \in SelectDates :
          UpdatePeriodDate(1, field, value)
    \/ DownloadPeriodKML(1)
    \/ OsrmMatchResponds(1, Failure("http_error"))

SpecSelect == InitPage /\ [][NextSelect]_vars

-----------------------------------------------------------------------------
(* A session of file loads, period additions, removals and date edits *)

\* a walk from A at 10:00 to B at 10:05; an object that is neither a point list
\* nor a list of records; a text that is no JSON
WalkDoc ==
    RecordsDoc(<< TimelineRecord(<< [point |-> Geo(PosA[1], PosA[2]), offset |-> Some(0)],
                                    [point |-> Geo(PosB[1], PosB[2]), offset |-> Some(5)] >>) >>)

SessionDocs == {WalkDoc} \cup BadDocs

\* the values a date input is changed to: 10:05, an emptied input, and for the
\* periods after the first also 10:10
SessionDates(periodId) ==
    { ExampleTimes.start + 5 * 60000, InvalidDate }
        \cup (IF periodId > 1 THEN {ExampleTimes.end} ELSE {})

NextSession ==
    \/ \E doc \in SessionDocs : ProcessFile(doc)
    \/ AddPeriod
    \/ \E periodId \in 1..MaxPeriods : RemovePeriod(periodId)
    \/ \E periodId \in 1..MaxPeriods : \E field \in {"startDate", "endDate"} :
          \E value \in SessionDates(periodId) : UpdatePeriodDate(periodId, field, value)

SpecSession == InitPage /\ [][NextSession]_vars

-----------------------------------------------------------------------------
(* Processing runs while the period list changes *)

NextRun ==
    \/ ProcessFile(WalkDoc)
    \/ AddPeriod
    \/ \E periodId \in 1..MaxPeriods : RemovePeriod(periodId)
    \/ \E periodId \in 1..MaxPeriods : \E field \in {"startDate", "endDate"} :
          UpdatePeriodDate(periodId, field, ExampleTimes.start + 5 * 60000)
    \/ ProcessPeriods
    \/ RunTimerFires

SpecRun == InitPage /\ [][NextRun]_vars

-----------------------------------------------------------------------------
(* File selections while a file is read *)

\* the walk, an empty point list, and the two files that fail the load
LoadDocs == {WalkDoc, StandardDoc(<<>>)} \cup BadDocs

NextLoad ==
    \/ \E doc \in LoadDocs : SelectFile(doc)
    \/ DropOtherFile
    \/ ReaderLoads
    \/ ReaderFails
    \/ ResetTimerFires

\* the earliest pending reader delivers its event, load or error: the step that
\* ReaderLoads and ReaderFails have in common
ReaderSettles == fileReaders # <<>> /\ fileReaders' = Tail(fileReaders)

\* a pending read ends, by onload or by onerror, and a pending timeout fires
SpecLoad ==
    /\ InitPage
    /\ [][NextLoad]_vars
    /\ WF_fileReaders(ReaderSettles)
    /\ WF_vars(ResetTimerFires)

-----------------------------------------------------------------------------
(* Properties of the export path *)

RECURSIVE Concat(_)
Concat(segs) == IF segs = <<>> THEN <<>> ELSE Head(segs) \o Concat(Tail(segs))

LastOf(s) == s[Len(s)]

ThreeHours == 10800000
ThirtyMinutes == 1800000
TenMinutes == 600000

\* C1: every track segment generateKML commits has at least 2 points; a buffer
\* holding a single point when it is closed is never emitted.
C1_CommittedSegmentsHaveTwoPoints ==
    kmlOut.empty \/ \A i \in DOMAIN kmlOut.trackSegments : Len(kmlOut.trackSegments[i]) >= 2

\* a segment was committed and some retained point, alone in its buffer, was not
C1_Witness ==
    /\ ~kmlOut.empty
    /\ Len(kmlOut.trackSegments) >= 1
    /\ Len(Concat(kmlOut.trackSegments)) < Len(kmlOut.retained)

\* C2 as claimed: the committed segments, concatenated in output order, are
\* exactly the retained points (valid, not a consecutive duplicate) in time order.
C2_SegmentsCoverAllRetained ==
    kmlOut.empty \/ Concat(kmlOut.trackSegments) = kmlOut.retained

\* the retained point i has a gap above the pair's threshold on each side where
\* it has a retained neighbour
Isolated(ret, i) ==
    /\ i = 1 \/ TsOf(ret[i]) - TsOf(ret[i - 1]) > getPairGapThresholdMs(ret[i - 1], ret[i])
    /\ i = Len(ret) \/ TsOf(ret[i + 1]) - TsOf(ret[i]) > getPairGapThresholdMs(ret[i], ret[i + 1])

RECURSIVE NotIsolatedFrom(_, _)
NotIsolatedFrom(ret, i) ==
    IF i > Len(ret) THEN <<>>
    ELSE (IF Isolated(ret, i) THEN <<>> ELSE <<ret[i]>>) \o NotIsolatedFrom(ret, i + 1)

\* C2 amended: the committed segments, concatenated in output order, are exactly
\* the retained points in time order without the isolated ones (those whose
\* buffer held them alone when it was closed).
C2_SegmentsCoverRetainedButIsolated ==
    kmlOut.empty \/ Concat(kmlOut.trackSegments) = NotIsolatedFrom(kmlOut.retained, 1)

\* two segments were committed and an isolated retained point was left out
C2_Witness ==
    /\ ~kmlOut.empty
    /\ Len(kmlOut.trackSegments) >= 1
    /\ \E i \in DOMAIN kmlOut.retained : Isolated(kmlOut.retained, i)
    /\ \E i \in DOMAIN kmlOut.retained : ~Isolated(kmlOut.retained, i)

\* C3: whatever the input order, segments come in ascending start-time order, the
\* last timestamp of a segment is strictly earlier than the first of the next,
\* and the points inside a segment are in non-decreasing timestamp order.
C3_SegmentsOrderedAndDisjoint ==
    kmlOut.empty \/
    LET segs == kmlOut.trackSegments
    IN /\ \A i \in 1..(Len(segs) - 1) :
            /\ TsOf(segs[i][1]) < TsOf(segs[i + 1][1])
            /\ TsOf(LastOf(segs[i])) < TsOf(segs[i + 1][1])
       /\ \A i \in DOMAIN segs : \A k \in 1..(Len(segs[i]) - 1) :
            TsOf(segs[i][k]) <= TsOf(segs[i][k + 1])

\* two segments were committed from a point list given in descending time order
C3_Witness ==
    /\ ~kmlOut.empty
    /\ Len(kmlOut.trackSegments) >= 2
    /\ \E i \in 1..(Len(locations) - 1) : TsOf(locations[i]) > TsOf(locations[i + 1])

TransitTagged(loc) ==
    loc.activityType \in {"in passenger vehicle", "IN PASSENGER VEHICLE", "in train",
                          "in subway", "In Tram", "in bus", "in ferry"}
PedestrianTagged(loc) ==
    loc.activityType \in {"walking", "WALKING", "on foot", "running"}

PairThreshold(p, q) ==
    IF TransitTagged(p) \/ TransitTagged(q) THEN ThreeHours
    ELSE IF PedestrianTagged(p) \/ PedestrianTagged(q) THEN TenMinutes
    ELSE ThirtyMinutes

AdjacentInSegment(segs, p, q) ==
    \E i \in DOMAIN segs : \E k \in 1..(Len(segs[i]) - 1) :
        segs[i][k] = p /\ segs[i][k + 1] = q

\* C4: two consecutive retained points are in the same segment exactly when their
\* time difference is at most the threshold of the pair (3 hours with a transit
\* endpoint, else 10 minutes with a pedestrian endpoint, else 30 minutes); a gap
\* equal to the threshold does not split.
C4_SplitExactlyAboveThreshold ==
    kmlOut.empty \/
    LET ret == kmlOut.retained
    IN \A i \in 1..(Len(ret) - 1) :
          AdjacentInSegment(kmlOut.trackSegments, ret[i], ret[i + 1])
            <=> (TsOf(ret[i + 1]) - TsOf(ret[i]) <= PairThreshold(ret[i], ret[i + 1]))

\* a pair exactly 3 hours apart with a transit endpoint was kept together
C4_Witness ==
    /\ ~kmlOut.empty
    /\ \E i \in 1..(Len(kmlOut.retained) - 1) :
          LET p == kmlOut.retained[i]
              q == kmlOut.retained[i + 1]
          IN /\ TransitTagged(p) \/ TransitTagged(q)
             /\ TsOf(q) - TsOf(p) = ThreeHours
             /\ AdjacentInSegment(kmlOut.trackSegments, p, q)

ClaimedFastModes == {"driving", "train", "subway", "tram", "bus", "ferry"}
ClaimedWalkModes == {"walking", "on-foot", "running"}

ClaimedGap(prevType, nextType) ==
    LET prevMode == toLowerCase(prevType)
        nextMode == toLowerCase(nextType)
    IN IF \E m \in ClaimedFastModes : includes(prevMode, m) \/ includes(nextMode, m)
       THEN ThreeHours
       ELSE IF \E m \in ClaimedWalkModes : includes(prevMode, m) \/ includes(nextMode, m)
       THEN TenMinutes
       ELSE ThirtyMinutes

\* C5 as claimed: the threshold is 3 hours when either activityType contains
\* (case-insensitively) driving, train, subway, tram, bus or ferry, else 10 minutes
\* when either contains walking, on-foot or running, else 30 minutes.
C5_ThresholdByClaimedModes ==
    kmlOut.empty \/ \A i \in DOMAIN kmlOut.gapLog :
        kmlOut.gapLog[i].gapMs =
            ClaimedGap(kmlOut.gapLog[i].prev.activityType, kmlOut.gapLog[i].next.activityType)

\* C5 amended: the threshold is 3 hours when the lower-cased activityType of either
\* endpoint contains 'in passenger vehicle', 'in train', 'in subway', 'in tram',
\* 'in bus' or 'in ferry', else 10 minutes when either contains 'walking',
\* 'on foot' or 'running', else 30 minutes (also for 'driving', 'bus', 'train',
\* 'on-foot' and for missing types); swapping the endpoints gives the same result.
C5_ThresholdByCodeModes ==
    kmlOut.empty \/ \A i \in DOMAIN kmlOut.gapLog :
        LET e == kmlOut.gapLog[i]
        IN /\ e.gapMs = PairThreshold(e.prev, e.next)
           /\ e.gapMs = getPairGapThresholdMs(e.next, e.prev)

\* the walk computed 3 hours for a pair whose later endpoint alone is transit,
\* and the types of the pair are not both the same
C5_Witness ==
    /\ ~kmlOut.empty
    /\ \E i \in DOMAIN kmlOut.gapLog :
          /\ kmlOut.gapLog[i].prev.activityType = "walking"
          /\ kmlOut.gapLog[i].next.activityType = "IN PASSENGER VEHICLE"
          /\ kmlOut.gapLog[i].gapMs = ThreeHours

\* two points of the same microdegree pair
SameCoordinates(a, b) ==
    a.latitudeE7 = b.latitudeE7 /\ a.longitudeE7 = b.longitudeE7

\* C35: a point at the coordinates of the last retained point is dropped, so no
\* committed segment holds two consecutive points with identical coordinates,
\* whatever the coordinates are, 0 included.
C35_NoAdjacentEqualCoordinates ==
    ~kmlOut.empty =>
        \A s \in 1..Len(kmlOut.trackSegments) :
            \A i \in 1..(Len(kmlOut.trackSegments[s]) - 1) :
                ~SameCoordinates(kmlOut.trackSegments[s][i], kmlOut.trackSegments[s][i + 1])

-----------------------------------------------------------------------------
(* Properties of the preview path *)

LatLonOf(coords) == [k \in 1..Len(coords) |-> <<coords[k][2], coords[k][1]>>]

\* the usable points of a call's period, in the order given, as [lat, lon] and
\* as [lon, lat]
RawLatLon(r) ==
    LET u == SelectSeq(r.periodLocations, LAMBDA l : l.latitudeE7 # 0 /\ l.longitudeE7 # 0)
    IN [k \in 1..Len(u) |-> <<u[k].latitudeE7, u[k].longitudeE7>>]
RawLonLat(r) == LatLonOf(RawLatLon(r))

ResponsesOf(r, to) == SelectSeq(r.responses, LAMBDA e : e.to = to)
RequestsOf(r, to) == SelectSeq(r.requests, LAMBDA e : e.to = to)

ErrorKinds == {"network_error", "http_error", "malformed"}

\* the geometries of the match answers, in chunk order, end to end
MatchedGeometry(r) ==
    LET m == ResponsesOf(r, "match")
    IN Concat([k \in 1..Len(m) |-> m[k].outcome.geometry])

\* the raw [lon, lat] points of the chunks a match request was sent for
RequestedRaw(r) ==
    LET q == RequestsOf(r, "match")
        raw == RawLonLat(r)
    IN Concat([k \in 1..Len(q) |->
                 SubSeq(raw, q[k].i + 1, Min(q[k].i + 90, Len(raw)))])

QuotaDenied(r) ==
    /\ mapboxConfig.apiKey # None
    /\ r.usageAtStart * 10 >= 9 * 100000
    /\ RequestsOf(r, "mapbox") = <<>>

\* the primary call failed by an HTTP error, an empty result or quota denial
PrimaryFailed(r) ==
    /\ r.smartCalled
    /\ \/ QuotaDenied(r)
       \/ \E k \in DOMAIN r.responses :
            r.responses[k].to = "mapbox" /\ r.responses[k].outcome.kind \in {"http_error", "empty"}

\* every chunk's match request was answered with a geometry of 2 or more points
SecondaryMatchedAll(r) ==
    /\ ResponsesOf(r, "match") # <<>>
    /\ RequestsOf(r, "route") = <<>>
    /\ \A k \in DOMAIN r.responses :
          r.responses[k].to = "match" =>
             r.responses[k].outcome.kind = "ok" /\ Len(r.responses[k].outcome.geometry) >= 2

\* a request to the secondary ended in an error: match HTTP error, network error
\* or malformed body, or route network error or malformed body
SecondaryErrored(r) ==
    \E k \in DOMAIN r.responses :
        \/ r.responses[k].to = "match" /\ r.responses[k].outcome.kind \in ErrorKinds
        \/ r.responses[k].to = "route" /\ r.responses[k].outcome.kind \in {"network_error", "malformed"}

\* every chunk's match answer was empty and its route request failed with an
\* HTTP error or without a route
SecondaryEmptyAll(r) ==
    /\ ResponsesOf(r, "match") # <<>>
    /\ \A k \in DOMAIN r.responses :
          /\ r.responses[k].to = "match" => r.responses[k].outcome.kind = "empty"
          /\ r.responses[k].to = "route" => r.responses[k].outcome.kind \in {"http_error", "no_route"}

\* no request to the secondary was answered with a geometry
SecondaryFailed(r) ==
    /\ ResponsesOf(r, "match") # <<>>
    /\ \A k \in DOMAIN r.responses :
          r.responses[k].to \in {"match", "route"} => r.responses[k].outcome.kind # "ok"

\* C6 as claimed: when the primary call fails (HTTP error, empty result, quota
\* denial) and the secondary succeeds, the result is the secondary's matched
\* geometry (as the resolver normalises it); when both fail, snapPathSmart returns
\* null and loadPeriodData substitutes the raw coordinates of the period.
C6_FallbackChainAsClaimed ==
    \A p \in PreviewSlots :
        LET r == res[p]
        IN (r.pc = "done" /\ PrimaryFailed(r)) =>
              /\ SecondaryMatchedAll(r) =>
                    r.smartResult = osrmResult(LatLonOf(MatchedGeometry(r)))
              /\ SecondaryFailed(r) =>
                    r.smartResult = None /\ r.coordinates = Some(RawLatLon(r))

\* C6 amended: when the primary is not used or its call fails and the secondary
\* matches every chunk, the result is the matched geometries end to end, as
\* [lat, lon] with consecutive near-identical coordinates removed (null if fewer
\* than 2 remain); when a secondary request errors, snapPathSmart returns null and
\* loadPeriodData substitutes the raw coordinates of the period; when every match
\* answer is empty and every route request fails, snapPathSmart itself returns
\* the raw coordinates of the requested chunks, consecutive duplicates removed
\* (null, and the caller's raw coordinates, if fewer than 2 remain).
C6_FallbackChain ==
    \A p \in PreviewSlots :
        LET r == res[p]
        IN (r.pc = "done" /\ r.osrmCalled /\ Len(RawLatLon(r)) >= 2) =>
              /\ SecondaryMatchedAll(r) =>
                    r.smartResult = osrmResult(LatLonOf(MatchedGeometry(r)))
              /\ SecondaryErrored(r) => r.smartResult = None
              /\ SecondaryEmptyAll(r) =>
                    r.smartResult = osrmResult(LatLonOf(RequestedRaw(r)))
              /\ r.coordinates = (IF r.smartResult = None THEN Some(RawLatLon(r))
                                  ELSE r.smartResult)

\* the primary answered with an HTTP error, the secondary matched, and the
\* matched geometry is what is drawn
C6_Witness ==
    \E p \in PreviewSlots :
        LET r == res[p]
        IN /\ r.pc = "done"
           /\ \E k \in DOMAIN r.responses :
                 r.responses[k].to = "mapbox" /\ r.responses[k].outcome.kind = "http_error"
           /\ SecondaryMatchedAll(r)
           /\ r.smartResult # None
           /\ mapLayers = Some(LatLonOf(MatchedGeometry(r)))

\* the share of activity_path points among the period's points, doubled, against
\* the number of points
TaggedTwice(r) ==
    2 * Cardinality({k \in DOMAIN r.periodLocations :
                        r.periodLocations[k].source = "activity_path"})

TimeOrderedLatLon(r) ==
    LET u == SortByTime(SelectSeq(r.periodLocations,
                                  LAMBDA l : l.latitudeE7 # 0 /\ l.longitudeE7 # 0))
    IN [k \in 1..Len(u) |-> <<u[k].latitudeE7, u[k].longitudeE7>>]

NativePathUsed(r) ==
    /\ r.requests = <<>>
    /\ mapboxConfig.usageCount = r.usageAtStart
    /\ r.pc = "done"
    /\ r.coordinates = Some(TimeOrderedLatLon(r))

\* C7 as claimed: with at least 50% of the points tagged activity_path, exactly
\* 50% included, the result is the raw time-ordered coordinates, no request is
\* sent and usageCount is unchanged.
C7_NativePathFromHalf ==
    \A p \in PreviewSlots :
        LET r == res[p]
        IN (r.periodLocations # <<>> /\ TaggedTwice(r) >= Len(r.periodLocations))
              => NativePathUsed(r)

\* C7 amended: with more than 50% of the points tagged activity_path, the result
\* is the raw time-ordered coordinates, no request is sent and usageCount is
\* unchanged.
C7_NativePathAboveHalf ==
    \A p \in PreviewSlots :
        LET r == res[p]
        IN (r.periodLocations # <<>> /\ TaggedTwice(r) > Len(r.periodLocations))
              => NativePathUsed(r)

\* two of three points are tagged, the list was not in time order, the primary
\* was eligible, and the time-ordered raw path of 2 or more points is drawn
C7_Witness ==
    \E p \in PreviewSlots :
        LET r == res[p]
        IN /\ Len(r.periodLocations) = 3
           /\ TaggedTwice(r) = 4
           /\ shouldUseMapbox(mapboxConfig)
           /\ r.pc = "done"
           /\ Len(TimeOrderedLatLon(r)) >= 2
           /\ TimeOrderedLatLon(r) # RawLatLon(r)
           /\ mapLayers = Some(TimeOrderedLatLon(r))

\* latitudes of the inputs and answers lie in 52..53 degrees, longitudes in 13..14
IsLatLonPair(c) ==
    /\ c[1] >= 520000000 /\ c[1] < 530000000
    /\ c[2] >= 130000000 /\ c[2] < 140000000

\* C8: every non-null coordinate sequence a resolution produces is a sequence of
\* [lat, lon] pairs, whichever tier produced it.
C8_ResultsAreLatLon ==
    \A p \in PreviewSlots :
        res[p].smartResult # None =>
            \A k \in DOMAIN res[p].smartResult[1] : IsLatLonPair(res[p].smartResult[1][k])

\* C9: whatever the providers answer, snapPathSmart does not throw to its caller
\* and returns null or a coordinate list of at least 2 entries.
C9_SmartReturnsNullOrPath ==
    \A p \in PreviewSlots :
        /\ res[p].pc # "rejected"
        /\ res[p].smartResult = None \/ Len(res[p].smartResult[1]) >= 2

\* the primary request failed on the network, the secondary's body was malformed,
\* and the call ended with null and the raw coordinates drawn
C9_Witness ==
    \E p \in PreviewSlots :
        LET r == res[p]
        IN /\ r.pc = "done"
           /\ r.smartCalled
           /\ \E k \in DOMAIN r.responses :
                 r.responses[k].to = "mapbox" /\ r.responses[k].outcome.kind = "network_error"
           /\ \E k \in DOMAIN r.responses :
                 r.responses[k].to = "match" /\ r.responses[k].outcome.kind = "malformed"
           /\ r.smartResult = None
           /\ mapLayers = Some(RawLatLon(r))

\* the [lat, lon] points that survive the duplicate filter when snapPathOSRM
\* returns: what it had collected, with the raw points of the chunk whose request
\* failed standing in for that chunk
SurvivorsAtReturn(r) ==
    LET failed == r.responses # <<>> /\ r.responses[Len(r.responses)].outcome.kind \in ErrorKinds
        raw == RawLonLat(r)
        chunk == SubSeq(raw, r.i + 1, Min(r.i + 90, Len(raw)))
    IN dedupe(r.snapped \o (IF failed THEN LatLonOf(chunk) ELSE <<>>))

\* C10: snapPathOSRM, called with at least 2 usable points, returns null only if
\* fewer than 2 points survive the concatenation and the duplicate removal, also
\* when a chunk's match request fails.
C10_OsrmNullOnlyBelowTwoSurvivors ==
    \A p \in PreviewSlots :
        LET r == res[p]
        IN (r.osrmReturned = Some(None) /\ Len(RawLatLon(r)) >= 2)
              => Len(SurvivorsAtReturn(r)) < 2

\* the primary's answer was returned as the result: a matching of 2 or more points
PrimarySucceeded(r) ==
    \E k \in DOMAIN r.responses :
        /\ r.responses[k].to = "mapbox"
        /\ r.responses[k].outcome.kind = "ok"
        /\ Len(r.responses[k].outcome.geometry) >= 2

\* the primary was not eligible when the resolution started: no key, or the count
\* at the threshold
PrimaryIneligible(r) ==
    ~shouldUseMapbox([apiKey |-> mapboxConfig.apiKey, usageCount |-> r.usageAtStart])

C37_AllDegradedGivesFullRawPath ==
    \A p \in PreviewSlots :
        LET r == res[p]
        IN (r.pc = "done" /\ r.osrmReturned # None /\ SecondaryEmptyAll(r))
              => r.osrmReturned[1] = osrmResult(RawLatLon(r))

\* C38: the resolver's duplicate filter and the segmenter's apply the same
\* tolerance: of two consecutive points, also two that are exactly 1e-7 degrees
\* apart in one axis, the resolver drops the second exactly when the segmenter
\* drops it.
C38_SameToleranceInBothFilters ==
    LET r == res[1]
    IN (~kmlOut.empty /\ r.pc = "done" /\ r.osrmReturned # None /\ Len(r.periodLocations) = 2)
          => (Len(kmlOut.retained) = 1 <=> r.osrmReturned[1] = None)

-----------------------------------------------------------------------------
(* Properties of the exported document *)

\* lon,lat,0 with six decimal places, longitude first
Triple(loc) == toFixed6(loc.longitudeE7) \o "," \o toFixed6(loc.latitudeE7) \o ",0"

\* the example of the serializer: (lat 52.0, lon 13.0) then (lat 52.1, lon 13.1)
ExampleSegment ==
    <<Pt(CoordA[1], CoordA[2], 1000, "", ""), Pt(CoordB[1], CoordB[2], 1001, "", "")>>

\* C17: the document has exactly one line feature per committed segment, in
\* segment order, and each line feature lists one coordinate triple per point of
\* its segment, in time order, as lon,lat,0 with six decimal places; the example
\* segment gives 13.000000,52.000000,0 followed by 13.100000,52.100000,0.
C17_OneTriplePerSegmentPoint ==
    (kmlDoc # None /\ kmlDoc[1].content.document) =>
        LET tracks == kmlDoc[1].content.tracks
            segs == kmlOut.trackSegments
        IN /\ Len(tracks) = Len(segs)
           /\ \A i \in DOMAIN segs :
                 /\ tracks[i].coordinates = [k \in 1..Len(segs[i]) |-> Triple(segs[i][k])]
                 /\ segs[i] = ExampleSegment =>
                       tracks[i].coordinates = <<"13.000000,52.000000,0", "13.100000,52.100000,0">>

\* C18: exporting a period that matches zero points yields a well-formed
\* document (container and metadata present) with no track features.
C18_EmptyPeriodGivesDocument ==
    (kmlDoc # None /\ FilterPeriod(locations, kmlDoc[1].period) = <<>>) =>
        /\ kmlDoc[1].content.document
        /\ kmlDoc[1].content.period = Some(kmlDoc[1].period.id)
        /\ kmlDoc[1].content.tracks = <<>>

\* C19: with no waypoint option the document has no point features; with any
\* option it has exactly one point feature per retained point of the period,
\* named 1..k without gaps.
C19_PointFeaturesAreRetainedPoints ==
    (kmlDoc # None /\ kmlDoc[1].content.document) =>
        LET style == kmlDoc[1].style
            points == kmlDoc[1].content.points
        IN IF style.showLabels \/ style.showTickmarks \/ style.showTrackpoints
           THEN /\ points # None
                /\ Len(points[1]) = Len(kmlOut.retained)
                /\ \A k \in DOMAIN points[1] : points[1][k].index = k
           ELSE points = None

-----------------------------------------------------------------------------
(* Properties of a resolution *)

Pending(p) == res[p].pc \in {"mapbox", "match", "route"}

\* the chunks snapPathOSRM cuts the usable points of r into
ChunkStarts(r) ==
    { i \in 0..Len(FilterUsable(r.periodLocations)) :
        i % 90 = 0 /\ i < Len(FilterUsable(r.periodLocations)) }

\* at most one primary request, and at most one match and one route request for
\* each chunk
RequestsBounded(r) ==
    /\ Len(RequestsOf(r, "mapbox")) <= 1
    /\ \A to \in {"match", "route"} :
          LET q == RequestsOf(r, to)
          IN /\ \A k \in 1..Len(q) : q[k].i \in ChunkStarts(r)
             /\ \A j, k \in 1..Len(q) : q[j].i = q[k].i => j = k

\* C11: when every request is answered in the end, a resolution that is waiting
\* for an answer finishes; it never sends more than one primary request and one
\* match and one route request per chunk; and when its period holds a point
\* with usable coordinates it finishes with a non-empty coordinate list, which
\* is what the map shows as it finishes.
C11_ResolutionFinishesWithGeometry ==
    /\ \A p \in PreviewSlots : Pending(p) ~> (res[p].pc = "done")
    /\ [](\A p \in PreviewSlots :
            /\ RequestsBounded(res[p])
            /\ res[p].pc # "rejected"
            /\ (res[p].pc = "done" /\ FilterUsable(res[p].periodLocations) # <<>>)
                  => (res[p].coordinates # None /\ res[p].coordinates[1] # <<>>))
    /\ [][ \A p \in PreviewSlots :
             (res[p].pc # "done" /\ res'[p].pc = "done"
                  /\ FilterUsable(res'[p].periodLocations) # <<>>)
                => mapLayers' = res'[p].coordinates ]_vars

\* a resolution over two chunks finished after a denied primary answer, an empty
\* match answer, a failed route request and a match of the second chunk
C11_Witness ==
    \E p \in PreviewSlots :
        /\ res[p].pc = "done"
        /\ Len(res[p].periodLocations) > 90
        /\ Len(RequestsOf(res[p], "mapbox")) = 1
        /\ Len(RequestsOf(res[p], "match")) = 2
        /\ Len(RequestsOf(res[p], "route")) = 1
        /\ res[p].coordinates # None /\ res[p].coordinates[1] # <<>>

-----------------------------------------------------------------------------
(* Properties of the quota *)

\* in this step call p received the answer to its pending request to `to`
Answered(p, to) ==
    /\ res[p].pc = to
    /\ Len(res'[p].responses) = Len(res[p].responses) + 1

AnswerOf(p) == res'[p].responses[Len(res'[p].responses)].outcome

\* in this step call p was started and ended or suspended without a request to
\* the primary
StartedWithoutPrimary(p) ==
    /\ res[p].pc \in {"idle", "done"}
    /\ res'[p].calls = res[p].calls + 1
    /\ res'[p].pc # "mapbox"

Persisted(cfg) == Some([apiKey |-> cfg.apiKey, usageCount |-> cfg.usageCount])

\* C12 as claimed: usageCount increases by exactly 1, and is persisted, for each
\* primary call that returns a non-empty matched geometry; a primary call that
\* fails by an HTTP error, an empty result or quota denial leaves usageCount and
\* the persisted record unchanged.
C12_CountedOnlyOnMatchedGeometry ==
    [][ \A p \in Slots :
          /\ Answered(p, "mapbox") =>
                IF AnswerOf(p).kind = "ok" /\ AnswerOf(p).geometry # <<>>
                THEN /\ mapboxConfig'.usageCount = mapboxConfig.usageCount + 1
                     /\ localStorage' = Persisted(mapboxConfig')
                ELSE UNCHANGED <<mapboxConfig, localStorage>>
          /\ StartedWithoutPrimary(p) => UNCHANGED <<mapboxConfig, localStorage>>
      ]_vars

\* C12 amended: usageCount increases by exactly 1, and the record is persisted
\* with the new count, for each primary call whose answer arrives with HTTP
\* success and a body that parses, with or without a matched geometry in it; a
\* call that fails on the network, by an HTTP error or by a body that does not
\* parse, and a resolution that sends no primary request, leave both unchanged.
C12_CountedOnEveryParsedAnswer ==
    [][ \A p \in Slots :
          /\ Answered(p, "mapbox") =>
                IF AnswerOf(p).kind \in {"ok", "empty"}
                THEN /\ mapboxConfig'.usageCount = mapboxConfig.usageCount + 1
                     /\ mapboxConfig'.apiKey = mapboxConfig.apiKey
                     /\ localStorage' = Persisted(mapboxConfig')
                ELSE UNCHANGED <<mapboxConfig, localStorage>>
          /\ StartedWithoutPrimary(p) => UNCHANGED <<mapboxConfig, localStorage>>
      ]_vars

\* a primary call was answered without a matching, was counted and persisted, and
\* the resolution went on to the secondary
C12_Witness ==
    \E p \in Slots :
        /\ res[p].responses # <<>>
        /\ res[p].responses[1] = [to |-> "mapbox", outcome |-> Failure("empty")]
        /\ res[p].pc = "match"
        /\ mapboxConfig.usageCount = res[p].usageAtStart + 1
        /\ localStorage = Persisted(mapboxConfig)

\* C13: with resolutions in flight at the same time, usageCount never exceeds the
\* smallest count at which the primary provider is ineligible, and two
\* resolutions never both hold a primary request issued on the last call that
\* remained.
C13_QuotaNeverOvershoots ==
    /\ mapboxConfig.usageCount * 10 <= fallbackThresholdTenths * monthlyLimit
    /\ \A p, q \in Slots :
          (p # q /\ res[p].pc = "mapbox" /\ res[q].pc = "mapbox")
             => ~(res[p].usageAtStart = ThresholdCount - 1
                    /\ res[q].usageAtStart = ThresholdCount - 1)

\* a key is configured and the count is under the threshold
Eligible(cfg) ==
    cfg.apiKey # None /\ cfg.usageCount * 10 < 9 * 100000

\* C14: a request to the primary provider is issued only in a state where a key
\* is configured and usageCount / monthlyLimit < fallbackThreshold, and
\* shouldUseMapbox is true exactly in those states.
C14_PrimaryIssuedOnlyWhenEligible ==
    [][ /\ \A p \in Slots :
              (res[p].pc # "mapbox" /\ res'[p].pc = "mapbox") => Eligible(mapboxConfig)
        /\ shouldUseMapbox(mapboxConfig) <=> Eligible(mapboxConfig)
      ]_vars

\* a resolution issued its primary request on the last call under the threshold,
\* and a later resolution was denied the primary at the threshold
C14_Witness ==
    \E p, q \in Slots :
        /\ res[p].pc = "done" /\ res[p].usageAtStart = ThresholdCount - 1
        /\ RequestsOf(res[p], "mapbox") # <<>>
        /\ res[q].usageAtStart = ThresholdCount
        /\ res[q].smartCalled /\ RequestsOf(res[q], "mapbox") = <<>>

\* C15: within the month in which the count was persisted, a restart loads the
\* persisted count (no month has ended since the session started).
C15_RestartKeepsCount ==
    [][ (Reload /\ now = FirstMonth /\ localStorage # None)
           => mapboxConfig'.usageCount = localStorage[1].usageCount ]_vars

\* C16: while no month has ended, usageCount never decreases, and once the count
\* has reached the threshold the primary provider stays ineligible through
\* resolutions, key save, key clear and restarts.
C16_IneligibleUntilRollover ==
    [][ (now = FirstMonth /\ now' = FirstMonth) =>
           /\ mapboxConfig'.usageCount >= mapboxConfig.usageCount
           /\ mapboxConfig.usageCount >= ThresholdCount => ~shouldUseMapbox(mapboxConfig')
      ]_vars

-----------------------------------------------------------------------------
(* Properties of the normalization *)

\* the file that was loaded
LoadedDoc == locationData[1]

\* the file holds one activity record with a timeline path of geo: points that
\* all carry a minute offset
OneTimedPath ==
    /\ locationData # None
    /\ LoadedDoc.shape = "records"
    /\ Len(LoadedDoc.records) = 1
    /\ LoadedDoc.records[1].kind = "activity"
    /\ LET path == LoadedDoc.records[1].activity.timelinePath
       IN /\ path # <<>>
          /\ \A i \in 1..Len(path) : path[i].point # None /\ path[i].offset # None

TimedPath == LoadedDoc.records[1].activity.timelinePath

PathInRange ==
    \A i \in 1..Len(TimedPath) :
        ~absExceeds(TimedPath[i].point[1][1], 90) /\ ~absExceeds(TimedPath[i].point[1][2], 180)

\* the microdegree pair a point of the path is stored with
PathE7(i) == <<roundE7(TimedPath[i].point[1][1]), roundE7(TimedPath[i].point[1][2])>>

\* every point of the path is stored, tagged activity_path, at the start of the
\* record plus its offset
YieldsThePath ==
    /\ Len(locations) = Len(TimedPath)
    /\ \A k \in 1..Len(locations) : locations[k].source = "activity_path"
    /\ \A i \in 1..Len(TimedPath) :
          LET t == parseMillis(LoadedDoc.records[1].startTime) + TimedPath[i].offset[1] * 60000
          IN Cardinality({ k \in 1..Len(locations) :
                             TsOf(locations[k]) = t
                             /\ <<locations[k].latitudeE7, locations[k].longitudeE7>> = PathE7(i) })
               = Cardinality({ j \in 1..Len(TimedPath) :
                                 TimedPath[j].offset = TimedPath[i].offset /\ PathE7(j) = PathE7(i) })

\* C21 as stated: a timeline path of k points with pairwise distinct in-range
\* coordinates and explicit minute offsets yields exactly k points tagged
\* activity_path at startTs + m_i * 60000.
C21_DistinctPathYieldsKPoints ==
    (/\ OneTimedPath
     /\ PathInRange
     /\ \A i, j \in 1..Len(TimedPath) : i # j => TimedPath[i].point # TimedPath[j].point)
        => YieldsThePath

\* C21 amended: a timeline path of k in-range points with explicit minute
\* offsets whose coordinates are pairwise distinct after rounding to 1e-7
\* degrees, in a file that holds only this record, yields exactly k points
\* tagged activity_path at startTs + m_i * 60000.
C21_DistinctMicrodegreesYieldKPoints ==
    (/\ OneTimedPath
     /\ PathInRange
     /\ \A i, j \in 1..Len(TimedPath) : i # j => PathE7(i) # PathE7(j))
        => YieldsThePath

\* the record from 10:00 to 10:10 with three places at 0, 5 and 10 minutes was
\* loaded and gave three points at 10:00, 10:05 and 10:10
C21_Witness ==
    /\ OneTimedPath
    /\ [i \in 1..Len(TimedPath) |-> TimedPath[i].offset] = <<Some(0), Some(5), Some(10)>>
    /\ \A i, j \in 1..Len(TimedPath) : i # j => PathE7(i) # PathE7(j)
    /\ [k \in 1..Len(locations) |-> TsOf(locations[k])] = <<36000000, 36300000, 36600000>>

\* a list of records was loaded and converted to a point list that is not empty
RecordsConverted ==
    locationData # None /\ LoadedDoc.shape = "records" /\ alerts = <<>>

PairOf(loc) == <<loc.latitudeE7, loc.longitudeE7>>

\* the points the records push, in time order
PushedInTimeOrder == SortByTime(standardLocations(LoadedDoc.records))

\* the positions of PushedInTimeOrder that differ in coordinates from the
\* position before
Moves ==
    { k \in 1..Len(PushedInTimeOrder) :
        k = 1 \/ PairOf(PushedInTimeOrder[k]) # PairOf(PushedInTimeOrder[k - 1]) }

\* C22: the output of convertActivityBasedData is in non-decreasing timestamp
\* order, no two adjacent output points have the same microdegree pair, and
\* every pushed point that differs from the point before it in time order is
\* kept, so a coordinate that recurs non-adjacently is kept.
C22_SortedWithoutAdjacentDuplicates ==
    RecordsConverted =>
        /\ \A k \in 1..(Len(locations) - 1) :
              /\ TsOf(locations[k]) <= TsOf(locations[k + 1])
              /\ PairOf(locations[k]) # PairOf(locations[k + 1])
        /\ Len(locations) = Cardinality(Moves)
        /\ \A k \in Moves :
              \E j \in 1..Len(locations) :
                  /\ locations[j] = PushedInTimeOrder[k]
                  /\ j = Cardinality({ m \in Moves : m <= k })

\* a repeated report of a place was dropped, and the place is kept when it
\* recurs after another place
C22_Witness ==
    /\ RecordsConverted
    /\ Len(locations) < Len(PushedInTimeOrder)
    /\ \E k \in 1..(Len(locations) - 2) :
          /\ PairOf(locations[k]) = PairOf(locations[k + 2])
          /\ PairOf(locations[k]) # PairOf(locations[k + 1])

\* C23: no point with |lat| > 90e7 or |lon| > 180e7 is stored by normalization,
\* whether the file is a point list or a list of records.
C23_NoOutOfRangePointStored ==
    locationData # None =>
        \A k \in 1..Len(locations) :
            /\ Abs(locations[k].latitudeE7) <= 90 * E7
            /\ Abs(locations[k].longitudeE7) <= 180 * E7

\* the position an entry of a point list gives in the encoding it is written in
PositionOf(entry) ==
    IF entry.latitudeE7 # 0 \/ entry.longitudeE7 # 0 THEN <<entry.latitudeE7, entry.longitudeE7>>
    ELSE IF entry.latE7 # 0 \/ entry.lngE7 # 0 THEN <<entry.latE7, entry.lngE7>>
    ELSE IF entry.lat # None /\ entry.lng # None THEN <<roundE7(entry.lat[1]), roundE7(entry.lng[1])>>
    ELSE <<0, 0>>

\* the same point list with every position written as latitudeE7/longitudeE7
AsLatitudeE7(entries) ==
    [k \in 1..Len(entries) |->
        Entry(PositionOf(entries[k])[1], PositionOf(entries[k])[2], None, None, 0, 0,
              entries[k].timestampMs)]

\* C24: a point list exports the same document, with the same segments and the
\* same coordinates, whichever of the three encodings (latitudeE7/longitudeE7,
\* float lat/lng, latE7/lngE7) its entries are written in.
C24_EncodingsExportTheSameDocument ==
    (locationData # None /\ LoadedDoc.shape = "standard" /\ kmlDoc # None) =>
        kmlDoc[1].content =
            kmlDocument(generateKML(AsLatitudeE7(LoadedDoc.locations), kmlDoc[1].period),
                        kmlDoc[1].style)

\* a point list that is not empty was loaded
PointListLoaded ==
    locationData # None /\ LoadedDoc.shape = "standard" /\ alerts = <<>>

InRangeEntry(entry) ==
    Abs(PositionOf(entry)[1]) <= 90 * E7 /\ Abs(PositionOf(entry)[2]) <= 180 * E7

\* C26: for a point list, the stored point stream holds every input point whose
\* coordinates are within range, none dropped, in the input order.
C26_PointListPassesThrough ==
    PointListLoaded =>
        SelectSeq(locations, InRangeEntry) = SelectSeq(LoadedDoc.locations, InRangeEntry)

\* a point list whose entries are not in time order and stand at one place was
\* loaded: both entries are stored as they came
C26_Witness ==
    /\ PointListLoaded
    /\ Len(LoadedDoc.locations) = 2
    /\ InRangeEntry(LoadedDoc.locations[1]) /\ InRangeEntry(LoadedDoc.locations[2])
    /\ TsOf(LoadedDoc.locations[1]) > TsOf(LoadedDoc.locations[2])
    /\ PositionOf(LoadedDoc.locations[1]) = PositionOf(LoadedDoc.locations[2])
    /\ Len(locations) = 2

\* C27: the suppression of consecutive duplicates is idempotent: applied to the
\* output of the conversion, which it produced, it returns the same sequence.
C27_SuppressionIsIdempotent ==
    RecordsConverted =>
        /\ locations = dropConsecutiveDuplicates(PushedInTimeOrder)
        /\ dropConsecutiveDuplicates(locations) = locations

\* a place was reported three times in a row: the pass dropped two of the three
C27_Witness ==
    /\ RecordsConverted
    /\ Len(PushedInTimeOrder) >= 3
    /\ PairOf(PushedInTimeOrder[1]) = PairOf(PushedInTimeOrder[2])
    /\ PairOf(PushedInTimeOrder[2]) = PairOf(PushedInTimeOrder[3])
    /\ Len(locations) = Len(PushedInTimeOrder) - 2

\* C33: after a successful file load a period from the minimum to the maximum
\* timestamp of the loaded dataset has been created, and the record count shown
\* for it is the number of records of the dataset.
C33_DefaultPeriodSpansDataset ==
    (locationData # None /\ alerts = <<>>) =>
        /\ locations # <<>>
        /\ Len(periods) = 1 /\ Len(periodSummary) = 1
        /\ periods[1].id = 1
        /\ \A k \in 1..Len(locations) :
              periods[1].startDate <= TsOf(locations[k]) /\ TsOf(locations[k]) <= periods[1].endDate
        /\ \E k \in 1..Len(locations) : TsOf(locations[k]) = periods[1].startDate
        /\ \E k \in 1..Len(locations) : TsOf(locations[k]) = periods[1].endDate
        /\ periodSummary[1] = Len(locations)

\* a point list whose later entry is the earlier in time was loaded: the period
\* runs from the second entry's time to the first entry's, and counts both
C33_Witness ==
    /\ PointListLoaded
    /\ Len(locations) = 2
    /\ TsOf(locations[2]) < TsOf(locations[1])
    /\ periods = <<[id |-> 1, startDate |-> TsOf(locations[2]), endDate |-> TsOf(locations[1])]>>
    /\ periodSummary = <<2>>

\* the file holds one activity record whose path carries no minute offsets: a
\* timeline path of geo: points without offsets, or a waypoint array
OneUntimedPath ==
    /\ locationData # None
    /\ LoadedDoc.shape = "records"
    /\ Len(LoadedDoc.records) = 1
    /\ LoadedDoc.records[1].kind = "activity"
    /\ LET activity == LoadedDoc.records[1].activity
       IN IF activity.timelinePath # <<>>
          THEN \A i \in 1..Len(activity.timelinePath) :
                   activity.timelinePath[i].point # None /\ activity.timelinePath[i].offset = None
          ELSE activity.waypoints # <<>>

\* the positions of that path, in degrees
UntimedPath ==
    LET activity == LoadedDoc.records[1].activity
    IN IF activity.timelinePath # <<>>
       THEN [i \in 1..Len(activity.timelinePath) |->
                <<activity.timelinePath[i].point[1][1], activity.timelinePath[i].point[1][2]>>]
       ELSE [i \in 1..Len(activity.waypoints) |->
                <<waypointLatLng(activity.waypoints[i]).lat, waypointLatLng(activity.waypoints[i]).lon>>]

\* startTs + (endTs - startTs) * i / (n - 1), rounded
LinearTime(startTs, endTs, i, n) ==
    (2 * (startTs * (n - 1) + (endTs - startTs) * i) + (n - 1)) \div (2 * (n - 1))

\* C34: for a path of n in-range points at pairwise distinct places without
\* minute offsets (a waypoint array, or a timeline path without offsets) and
\* startTs <= endTs, point i (0-based) is stored at
\* startTs + (endTs - startTs) * i / (n - 1) rounded when n >= 2, and at startTs
\* when n = 1.
C34_UntimedPathIsInterpolated ==
    (/\ OneUntimedPath
     /\ parseMillis(LoadedDoc.records[1].startTime) <= parseMillis(LoadedDoc.records[1].endTime)
     /\ \A i \in 1..Len(UntimedPath) :
           ~absExceeds(UntimedPath[i][1], 90) /\ ~absExceeds(UntimedPath[i][2], 180)
     /\ \A i, j \in 1..Len(UntimedPath) :
           i # j => <<roundE7(UntimedPath[i][1]), roundE7(UntimedPath[i][2])>>
                      # <<roundE7(UntimedPath[j][1]), roundE7(UntimedPath[j][2])>>)
        => LET n == Len(UntimedPath)
               startTs == parseMillis(LoadedDoc.records[1].startTime)
               endTs == parseMillis(LoadedDoc.records[1].endTime)
           IN /\ Len(locations) = n
              /\ \A i \in 1..n :
                    /\ PairOf(locations[i]) = <<roundE7(UntimedPath[i][1]), roundE7(UntimedPath[i][2])>>
                    /\ TsOf(locations[i]) = IF n = 1 THEN startTs
                                            ELSE LinearTime(startTs, endTs, i - 1, n)

-----------------------------------------------------------------------------
(* Properties of the period selection *)

\* the points of the stream within a period, both bounds included, in the order
\* of the stream
Selection(period) ==
    SelectSeq(locations,
              LAMBDA loc : period.startDate <= TsOf(loc) /\ TsOf(loc) <= period.endDate)

\* C28: the record count shown for a period, the points of its export and the
\* points of its map preview are the same selection: the points with
\* startDate <= timestamp <= endDate in input order (the export then walks them
\* in time order).
C28_CountExportPreviewAgree ==
    /\ \A i \in 1..Len(periods) : periodSummary[i] = Len(Selection(periods[i]))
    /\ kmlDoc # None =>
          IF Selection(kmlDoc[1].period) = <<>> THEN kmlOut = NoKml
          ELSE /\ ~kmlOut.empty
               /\ kmlOut.periodLocations = SortByTime(Selection(kmlDoc[1].period))
    /\ res[1].period # None => res[1].periodLocations = Selection(res[1].period[1])

\* a period that starts and ends at the time of the last of two points was
\* counted, previewed and exported: one point each time
C28_Witness ==
    /\ Len(locations) = 2
    /\ periods # <<>>
    /\ periods[1].startDate = periods[1].endDate
    /\ periods[1].endDate = TsOf(locations[2])
    /\ TsOf(locations[1]) < TsOf(locations[2])
    /\ periodSummary[1] = 1
    /\ kmlDoc # None /\ kmlDoc[1].period = periods[1]
    /\ ~kmlOut.empty /\ Len(kmlOut.periodLocations) = 1
    /\ res[1].period = Some(periods[1]) /\ Len(res[1].periodLocations) = 1

-----------------------------------------------------------------------------
(* Properties of a session *)

\* C25: loading a document of neither recognized shape fails the whole load in
\* any state, also after an earlier successful load: an error is shown, and the
\* load puts no points and no date range in use and creates no period.
C25_UnrecognizedDocumentFailsTheLoad ==
    [][ ProcessFile([shape |-> "object"]) =>
           /\ alerts' = <<InvalidFormat>>
           /\ locations' = locations
           /\ globalDateRange' = globalDateRange
           /\ periods' = periods
      ]_vars

IdsContiguous(ps) == \A k \in 1..Len(ps) : ps[k].id = k

DatesOf(period) == <<period.startDate, period.endDate>>

DateLe(a, b) == a # InvalidDate /\ b # InvalidDate /\ a <= b

\* C30: after any sequence of period creations and date edits, every period
\* has startDate <= endDate.
C30_StartNotAfterEnd ==
    \A k \in 1..Len(periods) : DateLe(periods[k].startDate, periods[k].endDate)

\* C31: after any sequence of file loads, period creations and date edits, the
\* startDate and endDate of every period lie within the minimum and maximum
\* timestamp of the loaded dataset.
C31_DatesWithinDataset ==
    globalDateRange # None =>
        \A k \in 1..Len(periods) :
            /\ DateLe(globalDateRange[1].min, periods[k].startDate)
            /\ DateLe(periods[k].endDate, globalDateRange[1].max)

-----------------------------------------------------------------------------
(* Properties of a processing run *)

\* C32: a processing run over n periods produces exactly n downloads named
\* period1_output.kml ... periodn_output.kml, pairwise distinct, also when
\* periods are added or removed while its timers are pending.
C32_RunDownloadsOnePerPeriod ==
    (processingRun.total > 0 /\ processingRun.timers = <<>>) =>
        /\ Len(processingRun.downloads) = processingRun.total
        /\ \A i, j \in 1..Len(processingRun.downloads) :
              i # j => processingRun.downloads[i] # processingRun.downloads[j]
        /\ { processingRun.downloads[i] : i \in 1..Len(processingRun.downloads) }
              = { fileNameOf(k) : k \in 1..processingRun.total }

-----------------------------------------------------------------------------
(* Properties of the file selection *)

\* the loads in progress: files being read, and files read whose timeout is pending
LoadsInProgress == Len(fileReaders) + resetTimers

\* a file is chosen or dropped
FileChosen == (\E doc \in LoadDocs : SelectFile(doc)) \/ DropOtherFile

\* C39: at most one file load is in progress at any time; a selection or drop
\* that arrives while isProcessingFile is true changes nothing of the page; and
\* after every load, ended by onload or by a read error, isProcessingFile
\* returns to false.
C39_OneLoadAtATime ==
    /\ [](LoadsInProgress <= 1 /\ (isProcessingFile <=> LoadsInProgress = 1))
    /\ [][(isProcessingFile /\ FileChosen) =>
              UNCHANGED <<locations, kmlOut, kmlDoc, mapboxConfig, localStorage, res, mapLayers,
                          currentMapData, quotaEnv, fileEnv, runEnv, isProcessingFile,
                          fileReaders, resetTimers>>]_vars
    /\ (isProcessingFile ~> ~isProcessingFile)

\* a selection was ignored during a load, the walk was loaded with its default
\* period, a later read failed, and the page accepts files again
C39_Witness ==
    /\ ignoredSelections > 0
    /\ ~isProcessingFile
    /\ LoadsInProgress = 0
    /\ locationData = Some(WalkDoc)
    /\ Len(periods) = 1
    /\ alerts = <<ReadError>>

-----------------------------------------------------------------------------
(* Properties of previews in succession *)

\* C40: when a preview is requested while an earlier resolution still awaits a
\* provider, the earlier result is discarded: once both calls have ended,
\* currentMapData and the geometry drawn on the map are those of the period
\* requested last.
C40_LastRequestedPeriodIsShown ==
    (res[1].pc = "done" /\ res[2].pc = "done" /\ res[2].coordinates # None) =>
        /\ currentMapData = Some([period |-> Some(LaterPeriod), coordinates |-> res[2].coordinates[1]])
        /\ mapLayers = <<res[2].coordinates[1]>>

====
